---- MODULE Spec2Model ----
(***************************************************************************)
(* Attribute resolution of the ext_proc filter (AttrUtils, attr_utils.cc)  *)
(* and of the common attributes library (Attributes, attributes.cc).       *)
(* Strings are sequences of one-character strings, so that the tokenizer   *)
(* and the table lookups work on the characters the code works on.         *)
(***************************************************************************)
EXTENDS Integers, Sequences, FiniteSets, TLC

\* ----------------------------------------------------------------------
\* String constants of attr_utils.cc (lines 95-159)
\* ----------------------------------------------------------------------
REQUEST_TOKEN == <<"r", "e", "q", "u", "e", "s", "t">>
RESPONSE_TOKEN == <<"r", "e", "s", "p", "o", "n", "s", "e">>
CONNECTION_TOKEN == <<"c", "o", "n", "n", "e", "c", "t", "i", "o", "n">>
UPSTREAM_TOKEN == <<"u", "p", "s", "t", "r", "e", "a", "m">>
DOWNSTREAM_TOKEN == <<"d", "o", "w", "n", "s", "t", "r", "e", "a", "m">>
SOURCE_TOKEN == <<"s", "o", "u", "r", "c", "e">>
DESTINATION_TOKEN == <<"d", "e", "s", "t", "i", "n", "a", "t", "i", "o", "n">>
FILTER_STATE_TOKEN == <<"f", "i", "l", "t", "e", "r", "_", "s", "t", "a", "t", "e">>
METADATA_TOKEN == <<"m", "e", "t", "a", "d", "a", "t", "a">>
METADATA_FILTER_METADATA_TOKEN == <<"m", "e", "t", "a", "d", "a", "t", "a">>
REQUEST_PATH_TOKEN == <<"p", "a", "t", "h">>
REQUEST_URL_PATH_TOKEN == <<"u", "r", "l", "_", "p", "a", "t", "h">>
REQUEST_HOST_TOKEN == <<"h", "o", "s", "t">>
REQUEST_SCHEME_TOKEN == <<"s", "c", "h", "e", "m", "e">>
REQUEST_METHOD_TOKEN == <<"m", "e", "t", "h", "o", "d">>
REQUEST_HEADERS_TOKEN == <<"h", "e", "a", "d", "e", "r", "s">>
REQUEST_REFERER_TOKEN == <<"r", "e", "f", "e", "r", "e", "r">>
REQUEST_USERAGENT_TOKEN == <<"u", "s", "e", "r", "a", "g", "e", "n", "t">>
REQUEST_TIME_TOKEN == <<"t", "i", "m", "e">>
REQUEST_ID_TOKEN == <<"i", "d">>
REQUEST_PROTOCOL_TOKEN == <<"p", "r", "o", "t", "o", "c", "o", "l">>
REQUEST_DURATION_TOKEN == <<"d", "u", "r", "a", "t", "i", "o", "n">>
REQUEST_SIZE_TOKEN == <<"s", "i", "z", "e">>
REQUEST_TOTAL_SIZE_TOKEN == <<"t", "o", "t", "a", "l", "_", "s", "i", "z", "e">>
RESPONSE_CODE_TOKEN == <<"c", "o", "d", "e">>
RESPONSE_CODE_DETAILS_TOKEN == <<"c", "o", "d", "e", "_", "d", "e", "t", "a", "i", "l", "s">>
RESPONSE_FLAGS_TOKEN == <<"f", "l", "a", "g", "s">>
RESPONSE_GRPC_STATUS_TOKEN == <<"g", "r", "p", "c", "_", "s", "t", "a", "t", "u", "s">>
RESPONSE_HEADERS_TOKEN == <<"h", "e", "a", "d", "e", "r", "s">>
RESPONSE_TRAILERS_TOKEN == <<"t", "r", "a", "i", "l", "e", "r", "s">>
RESPONSE_SIZE_TOKEN == <<"s", "i", "z", "e">>
RESPONSE_TOTAL_SIZE_TOKEN == <<"t", "o", "t", "a", "l", "_", "s", "i", "z", "e">>
DESTINATION_ADDRESS_TOKEN == <<"a", "d", "d", "r", "e", "s", "s">>
DESTINATION_PORT_TOKEN == <<"p", "o", "r", "t">>
SOURCE_ADDRESS_TOKEN == <<"a", "d", "d", "r", "e", "s", "s">>
SOURCE_PORT_TOKEN == <<"p", "o", "r", "t">>
UPSTREAM_ADDRESS_TOKEN == <<"a", "d", "d", "r", "e", "s", "s">>
UPSTREAM_PORT_TOKEN == <<"p", "o", "r", "t">>
UPSTREAM_TLS_VERSION_TOKEN == <<"t", "l", "s", "_", "v", "e", "r", "s", "i", "o", "n">>
UPSTREAM_SUBJECT_LOCAL_CERTIFICATE_TOKEN == <<"s", "u", "b", "j", "e", "c", "t", "_", "l", "o", "c", "a", "l", "_", "c", "e", "r", "t", "i", "f", "i", "c", "a", "t", "e">>
UPSTREAM_SUBJECT_PEER_CERTIFICATE_TOKEN == <<"s", "u", "b", "j", "e", "c", "t", "_", "p", "e", "e", "r", "_", "c", "e", "r", "t", "i", "f", "i", "c", "a", "t", "e">>
UPSTREAM_DNS_SAN_LOCAL_CERTIFICATE_TOKEN == <<"d", "n", "s", "_", "s", "a", "n", "_", "l", "o", "c", "a", "l", "_", "c", "e", "r", "t", "i", "f", "i", "c", "a", "t", "e">>
UPSTREAM_DNS_SAN_PEER_CERTIFICATE_TOKEN == <<"d", "n", "s", "_", "s", "a", "n", "_", "p", "e", "e", "r", "_", "c", "e", "r", "t", "i", "f", "i", "c", "a", "t", "e">>
UPSTREAM_URI_SAN_LOCAL_CERTIFICATE_TOKEN == <<"u", "r", "i", "_", "s", "a", "n", "_", "l", "o", "c", "a", "l", "_", "c", "e", "r", "t", "i", "f", "i", "c", "a", "t", "e">>
UPSTREAM_URI_SAN_PEER_CERTIFICATE_TOKEN == <<"u", "r", "i", "_", "s", "a", "n", "_", "p", "e", "e", "r", "_", "c", "e", "r", "t", "i", "f", "i", "c", "a", "t", "e">>
UPSTREAM_LOCAL_ADDRESS_TOKEN == <<"l", "o", "c", "a", "l", "_", "a", "d", "d", "r", "e", "s", "s">>
UPSTREAM_TRANSPORT_FAILURE_REASON_TOKEN == <<"t", "r", "a", "n", "s", "p", "o", "r", "t", "_", "f", "a", "i", "l", "u", "r", "e", "_", "r", "e", "a", "s", "o", "n">>
CONNECTION_ID_TOKEN == <<"i", "d">>
CONNECTION_MTLS_TOKEN == <<"m", "t", "l", "s">>
CONNECTION_TLS_VERSION_TOKEN == <<"t", "l", "s", "_", "v", "e", "r", "s", "i", "o", "n">>
CONNECTION_REQUESTED_SERVER_NAME_TOKEN == <<"r", "e", "q", "u", "e", "s", "t", "e", "d", "_", "s", "e", "r", "v", "e", "r", "_", "n", "a", "m", "e">>
CONNECTION_SUBJECT_LOCAL_CERTIFICATE_TOKEN == <<"s", "u", "b", "j", "e", "c", "t", "_", "l", "o", "c", "a", "l", "_", "c", "e", "r", "t", "i", "f", "i", "c", "a", "t", "e">>
CONNECTION_SUBJECT_PEER_CERTIFICATE_TOKEN == <<"s", "u", "b", "j", "e", "c", "t", "_", "p", "e", "e", "r", "_", "c", "e", "r", "t", "i", "f", "i", "c", "a", "t", "e">>
CONNECTION_DNS_SAN_LOCAL_CERTIFICATE_TOKEN == <<"d", "n", "s", "_", "s", "a", "n", "_", "l", "o", "c", "a", "l", "_", "c", "e", "r", "t", "i", "f", "i", "c", "a", "t", "e">>
CONNECTION_DNS_SAN_PEER_CERTIFICATE_TOKEN == <<"d", "n", "s", "_", "s", "a", "n", "_", "p", "e", "e", "r", "_", "c", "e", "r", "t", "i", "f", "i", "c", "a", "t", "e">>
CONNECTION_URI_SAN_LOCAL_CERTIFICATE_TOKEN == <<"u", "r", "i", "_", "s", "a", "n", "_", "l", "o", "c", "a", "l", "_", "c", "e", "r", "t", "i", "f", "i", "c", "a", "t", "e">>
CONNECTION_URI_SAN_PEER_CERTIFICATE_TOKEN == <<"u", "r", "i", "_", "s", "a", "n", "_", "p", "e", "e", "r", "_", "c", "e", "r", "t", "i", "f", "i", "c", "a", "t", "e">>
CONNECTION_TERMINATION_DETAILS_TOKEN == <<"t", "e", "r", "m", "i", "n", "a", "t", "i", "o", "n", "_", "d", "e", "t", "a", "i", "l", "s">>

\* static const std::string HttpProtocolStrings[] (line 37), 0-based in the
\* code, indexed here by enum value + 1
HttpProtocolStrings == << <<"H", "t", "t", "p", " ", "1", ".", "0">>, <<"H", "t", "t", "p", " ", "1", ".", "1">>, <<"H", "t", "t", "p", " ", "2">>, <<"H", "t", "t", "p", " ", "3">> >>

\* ----------------------------------------------------------------------
\* Token lists (the X-macros of lines 39-59): each entry is the stringified
\* name #_t and the enumerator it is paired with
\* ----------------------------------------------------------------------
PROPERTY_TOKENS ==
  {
    [str |-> <<"M", "E", "T", "A", "D", "A", "T", "A">>, tok |-> "METADATA"],
    [str |-> <<"R", "E", "Q", "U", "E", "S", "T">>, tok |-> "REQUEST"],
    [str |-> <<"R", "E", "S", "P", "O", "N", "S", "E">>, tok |-> "RESPONSE"],
    [str |-> <<"C", "O", "N", "N", "E", "C", "T", "I", "O", "N">>, tok |-> "CONNECTION"],
    [str |-> <<"U", "P", "S", "T", "R", "E", "A", "M">>, tok |-> "UPSTREAM"],
    [str |-> <<"S", "O", "U", "R", "C", "E">>, tok |-> "SOURCE"],
    [str |-> <<"D", "E", "S", "T", "I", "N", "A", "T", "I", "O", "N">>, tok |-> "DESTINATION"],
    [str |-> <<"F", "I", "L", "T", "E", "R", "_", "S", "T", "A", "T", "E">>, tok |-> "FILTER_STATE"]
  }
REQUEST_TOKENS ==
  {
    [str |-> <<"P", "A", "T", "H">>, tok |-> "PATH"],
    [str |-> <<"U", "R", "L", "_", "P", "A", "T", "H">>, tok |-> "URL_PATH"],
    [str |-> <<"H", "O", "S", "T">>, tok |-> "HOST"],
    [str |-> <<"S", "C", "H", "E", "M", "E">>, tok |-> "SCHEME"],
    [str |-> <<"M", "E", "T", "H", "O", "D">>, tok |-> "METHOD"],
    [str |-> <<"H", "E", "A", "D", "E", "R", "S">>, tok |-> "HEADERS"],
    [str |-> <<"R", "E", "F", "E", "R", "E", "R">>, tok |-> "REFERER"],
    [str |-> <<"U", "S", "E", "R", "A", "G", "E", "N", "T">>, tok |-> "USERAGENT"],
    [str |-> <<"T", "I", "M", "E">>, tok |-> "TIME"],
    [str |-> <<"I", "D">>, tok |-> "ID"],
    [str |-> <<"P", "R", "O", "T", "O", "C", "O", "L">>, tok |-> "PROTOCOL"],
    [str |-> <<"D", "U", "R", "A", "T", "I", "O", "N">>, tok |-> "DURATION"],
    [str |-> <<"S", "I", "Z", "E">>, tok |-> "SIZE"],
    [str |-> <<"T", "O", "T", "A", "L", "_", "S", "I", "Z", "E">>, tok |-> "TOTAL_SIZE"]
  }
RESPONSE_TOKENS ==
  {
    [str |-> <<"C", "O", "D", "E">>, tok |-> "CODE"],
    [str |-> <<"C", "O", "D", "E", "_", "D", "E", "T", "A", "I", "L", "S">>, tok |-> "CODE_DETAILS"],
    [str |-> <<"F", "L", "A", "G", "S">>, tok |-> "FLAGS"],
    [str |-> <<"G", "R", "P", "C", "_", "S", "T", "A", "T", "U", "S">>, tok |-> "GRPC_STATUS"],
    [str |-> <<"H", "E", "A", "D", "E", "R", "S">>, tok |-> "HEADERS"],
    [str |-> <<"T", "R", "A", "I", "L", "E", "R", "S">>, tok |-> "TRAILERS"],
    [str |-> <<"S", "I", "Z", "E">>, tok |-> "SIZE"],
    [str |-> <<"T", "O", "T", "A", "L", "_", "S", "I", "Z", "E">>, tok |-> "TOTAL_SIZE"]
  }
CONNECTION_TOKENS ==
  {
    [str |-> <<"I", "D">>, tok |-> "ID"],
    [str |-> <<"M", "T", "L", "S">>, tok |-> "MTLS"],
    [str |-> <<"R", "E", "Q", "U", "E", "S", "T", "E", "D", "_", "S", "E", "R", "V", "E", "R", "_", "N", "A", "M", "E">>, tok |-> "REQUESTED_SERVER_NAME"],
    [str |-> <<"T", "L", "S", "_", "V", "E", "R", "S", "I", "O", "N">>, tok |-> "TLS_VERSION"],
    [str |-> <<"S", "U", "B", "J", "E", "C", "T", "_", "L", "O", "C", "A", "L", "_", "C", "E", "R", "T", "I", "F", "I", "C", "A", "T", "E">>, tok |-> "SUBJECT_LOCAL_CERTIFICATE"],
    [str |-> <<"S", "U", "B", "J", "E", "C", "T", "_", "P", "E", "E", "R", "_", "C", "E", "R", "T", "I", "F", "I", "C", "A", "T", "E">>, tok |-> "SUBJECT_PEER_CERTIFICATE"],
    [str |-> <<"D", "N", "S", "_", "S", "A", "N", "_", "L", "O", "C", "A", "L", "_", "C", "E", "R", "T", "I", "F", "I", "C", "A", "T", "E">>, tok |-> "DNS_SAN_LOCAL_CERTIFICATE"],
    [str |-> <<"D", "N", "S", "_", "S", "A", "N", "_", "P", "E", "E", "R", "_", "C", "E", "R", "T", "I", "F", "I", "C", "A", "T", "E">>, tok |-> "DNS_SAN_PEER_CERTIFICATE"],
    [str |-> <<"U", "R", "I", "_", "S", "A", "N", "_", "L", "O", "C", "A", "L", "_", "C", "E", "R", "T", "I", "F", "I", "C", "A", "T", "E">>, tok |-> "URI_SAN_LOCAL_CERTIFICATE"],
    [str |-> <<"U", "R", "I", "_", "S", "A", "N", "_", "P", "E", "E", "R", "_", "C", "E", "R", "T", "I", "F", "I", "C", "A", "T", "E">>, tok |-> "URI_SAN_PEER_CERTIFICATE"],
    [str |-> <<"T", "E", "R", "M", "I", "N", "A", "T", "I", "O", "N", "_", "D", "E", "T", "A", "I", "L", "S">>, tok |-> "TERMINATION_DETAILS"]
  }
UPSTREAM_TOKENS ==
  {
    [str |-> <<"A", "D", "D", "R", "E", "S", "S">>, tok |-> "ADDRESS"],
    [str |-> <<"P", "O", "R", "T">>, tok |-> "PORT"],
    [str |-> <<"T", "L", "S", "_", "V", "E", "R", "S", "I", "O", "N">>, tok |-> "TLS_VERSION"],
    [str |-> <<"S", "U", "B", "J", "E", "C", "T", "_", "L", "O", "C", "A", "L", "_", "C", "E", "R", "T", "I", "F", "I", "C", "A", "T", "E">>, tok |-> "SUBJECT_LOCAL_CERTIFICATE"],
    [str |-> <<"S", "U", "B", "J", "E", "C", "T", "_", "P", "E", "E", "R", "_", "C", "E", "R", "T", "I", "F", "I", "C", "A", "T", "E">>, tok |-> "SUBJECT_PEER_CERTIFICATE"],
    [str |-> <<"D", "N", "S", "_", "S", "A", "N", "_", "L", "O", "C", "A", "L", "_", "C", "E", "R", "T", "I", "F", "I", "C", "A", "T", "E">>, tok |-> "DNS_SAN_LOCAL_CERTIFICATE"],
    [str |-> <<"D", "N", "S", "_", "S", "A", "N", "_", "P", "E", "E", "R", "_", "C", "E", "R", "T", "I", "F", "I", "C", "A", "T", "E">>, tok |-> "DNS_SAN_PEER_CERTIFICATE"],
    [str |-> <<"U", "R", "I", "_", "S", "A", "N", "_", "L", "O", "C", "A", "L", "_", "C", "E", "R", "T", "I", "F", "I", "C", "A", "T", "E">>, tok |-> "URI_SAN_LOCAL_CERTIFICATE"],
    [str |-> <<"U", "R", "I", "_", "S", "A", "N", "_", "P", "E", "E", "R", "_", "C", "E", "R", "T", "I", "F", "I", "C", "A", "T", "E">>, tok |-> "URI_SAN_PEER_CERTIFICATE"],
    [str |-> <<"L", "O", "C", "A", "L", "_", "A", "D", "D", "R", "E", "S", "S">>, tok |-> "LOCAL_ADDRESS"],
    [str |-> <<"T", "R", "A", "N", "S", "P", "O", "R", "T", "_", "F", "A", "I", "L", "U", "R", "E", "_", "R", "E", "A", "S", "O", "N">>, tok |-> "TRANSPORT_FAILURE_REASON"]
  }

\* ----------------------------------------------------------------------
\* Strings, optionals and pointers
\* ----------------------------------------------------------------------
\* The NUL character '\0'
NUL == "NUL"

\* absl::string_view::npos, the largest size_t; only compared and passed to
\* std::min, never added to
npos == 2147483647

Min(a, b) == IF a <= b THEN a ELSE b

Max(a, b) == IF a >= b THEN a ELSE b

\* string_view::find(c): 0-based index of the first c, npos when there is none
Find(s, c) ==
  IF \E i \in 1..Len(s) : s[i] = c
  THEN (CHOOSE i \in 1..Len(s) : s[i] = c /\ \A j \in 1..(i - 1) : s[j] # c) - 1
  ELSE npos

\* string_view::substr(pos, n): n characters from 0-based pos, clipped to the end
substr(s, pos, n) == SubSeq(s, pos + 1, Min(Len(s), pos + n))

\* An absl::optional<T> or a (shared) pointer is a sequence of length 0 or 1
nullopt == << >>

nullptr == << >>

Some(v) == <<v>>

has_value(o) == Len(o) > 0

value(o) == o[1]

UpperChars ==
  <<"A", "B", "C", "D", "E", "F", "G", "H", "I", "J", "K", "L", "M",
    "N", "O", "P", "Q", "R", "S", "T", "U", "V", "W", "X", "Y", "Z">>

LowerChars ==
  <<"a", "b", "c", "d", "e", "f", "g", "h", "i", "j", "k", "l", "m",
    "n", "o", "p", "q", "r", "s", "t", "u", "v", "w", "x", "y", "z">>

\* std::tolower in the "C" locale
tolower(c) ==
  IF \E i \in 1..26 : UpperChars[i] = c
  THEN LowerChars[CHOOSE i \in 1..26 : UpperChars[i] = c]
  ELSE c

\* downCase (lines 61-64)
downCase(s) == [i \in 1..Len(s) |-> tolower(s[i])]

\* The _PAIR macro: {downCase(#_t), Token::_t} for every token of the list
MakeTable(tokens) ==
  [k \in {downCase(e.str) : e \in tokens} |->
     (CHOOSE e \in tokens : downCase(e.str) = k).tok]

\* property_tokens with "downstream" registered as a further name of the
\* connection namespace
property_tokens_with_downstream ==
  MakeTable(PROPERTY_TOKENS \cup
            {[str |-> <<"D", "O", "W", "N", "S", "T", "R", "E", "A", "M">>,
              tok |-> "CONNECTION"]})

property_tokens == MakeTable(PROPERTY_TOKENS)

request_tokens == MakeTable(REQUEST_TOKENS)

response_tokens == MakeTable(RESPONSE_TOKENS)

connection_tokens == MakeTable(CONNECTION_TOKENS)

upstream_tokens == MakeTable(UPSTREAM_TOKENS)

\* ----------------------------------------------------------------------
\* Maps (ProtobufWkt::Map): functions with a finite domain of keys
\* ----------------------------------------------------------------------
EmptyMap == [k \in {} |-> k]

contains(m, k) == k \in DOMAIN m

\* m[k] = v
Put(m, k, v) == [x \in (DOMAIN m) \cup {k} |-> IF x = k THEN v ELSE m[x]]

\* ----------------------------------------------------------------------
\* Values
\* ----------------------------------------------------------------------
Kinds == {"Null", "String", "UInt64", "Int64", "Bool", "Struct"}

\* ExprValueUtil::nullValue (lines 174-181)
ExprValueUtil_nullValue == [kind |-> "Null", val |-> << >>]

\* ExprValueUtil::stringValue (lines 161-165)
ExprValueUtil_stringValue(str) == [kind |-> "String", val |-> str]

\* ExprValueUtil::optionalStringValue (lines 167-172)
ExprValueUtil_optionalStringValue(str) ==
  IF has_value(str) THEN ExprValueUtil_stringValue(value(str))
  ELSE ExprValueUtil_nullValue

ExprValueUtil_uint64Value(n) == [kind |-> "UInt64", val |-> n]

ExprValueUtil_int64Value(n) == [kind |-> "Int64", val |-> n]

ExprValueUtil_boolValue(b) == [kind |-> "Bool", val |-> b]

ExprValueUtil_structValue(s) == [kind |-> "Struct", val |-> s]

\* ValueUtil::nullValue (attributes.cc lines 60-65)
ValueUtil_nullValue == [kind |-> "Null", val |-> << >>]

\* ValueUtil::stringValue (attributes.cc lines 41-45)
ValueUtil_stringValue(str) == [kind |-> "String", val |-> str]

\* ValueUtil::optionalStringValue (attributes.cc lines 47-52)
ValueUtil_optionalStringValue(str) ==
  IF has_value(str) THEN ValueUtil_stringValue(value(str))
  ELSE ValueUtil_nullValue

\* uint64Value storing the number in a floating-point field
ValueUtil_uint64Value_as_double(n) == [kind |-> "Double", val |-> n]

\* ValueUtil::uint64Value (attributes.cc lines 54-58)
ValueUtil_uint64Value(n) == [kind |-> "UInt64", val |-> n]

\* ----------------------------------------------------------------------
\* AttrUtils::tokenizePath (lines 193-208)
\* ----------------------------------------------------------------------
\* A tokenizer that looks for the '.' alone
tokenizePath_dot_only(path) ==
  LET dot == Find(path, ".")
  IN  IF dot = npos THEN <<path, << >> >>
      ELSE <<substr(path, 0, dot), substr(path, dot + 1, Len(path))>>

tokenizePath(path) ==
  LET first == Min(Find(path, "."), Find(path, NUL))
      root_token_str_end == IF first = npos THEN Len(path) ELSE first
      root_tok == substr(path, 0, root_token_str_end)
      sub_tok ==
        IF root_token_str_end + 1 < Len(path)
        THEN substr(path, root_token_str_end + 1,
                    Min(Find(path, NUL), Len(path) - root_token_str_end - 1))
        ELSE << >>
  IN  <<root_tok, sub_tok>>

\* ----------------------------------------------------------------------
\* Library conversions used by the accessors
\* ----------------------------------------------------------------------
DigitChars == <<"0", "1", "2", "3", "4", "5", "6", "7", "8", "9">>

IsDigit(c) == \E i \in 1..10 : DigitChars[i] = c

DigitVal(c) == (CHOOSE i \in 1..10 : DigitChars[i] = c) - 1

IsSpace(c) == c \in {" ", "\t", "\n", "\r"}

RECURSIVE DigitsValue(_)
DigitsValue(s) ==
  IF s = << >> THEN 0
  ELSE 10 * DigitsValue(SubSeq(s, 1, Len(s) - 1)) + DigitVal(s[Len(s)])

RECURSIVE StripLeft(_)
StripLeft(s) ==
  IF s # << >> /\ IsSpace(s[1]) THEN StripLeft(Tail(s)) ELSE s

RECURSIVE StripRight(_)
StripRight(s) ==
  IF s # << >> /\ IsSpace(s[Len(s)]) THEN StripRight(SubSeq(s, 1, Len(s) - 1))
  ELSE s

\* absl::SimpleAtoi(text, &length): surrounding whitespace is skipped, then an
\* optional sign and at least one decimal digit, nothing else; the result is
\* nullopt when the text is not of that form (the function returns false)
SimpleAtoi(text) ==
  LET t == StripRight(StripLeft(text))
      signed == t # << >> /\ t[1] \in {"+", "-"}
      digits == IF signed THEN Tail(t) ELSE t
  IN  IF digits # << >> /\ \A i \in 1..Len(digits) : IsDigit(digits[i])
      THEN Some(IF signed /\ t[1] = "-" THEN 0 - DigitsValue(digits)
                ELSE DigitsValue(digits))
      ELSE nullopt

RECURSIVE DecimalString(_)
DecimalString(n) ==
  IF n < 10 THEN <<DigitChars[n + 1]>>
  ELSE DecimalString(n \div 10) \o <<DigitChars[(n % 10) + 1]>>

\* AttrUtils::formatDuration (lines 610-612) / Attributes::formatDuration
\* (attributes.cc lines 431-433): absl::FormatDuration of a whole number of
\* seconds below one minute, "0" for the zero duration
formatDuration(duration) ==
  IF duration = 0 THEN <<"0">> ELSE DecimalString(duration) \o <<"s">>

\* AttrUtils::getTs (lines 614-618) / Attributes::getTs (attributes.cc lines
\* 435-439): TimeUtil::ToString of a start time given in seconds after the
\* epoch, below one minute
getTs(info) ==
  <<"1", "9", "7", "0", "-", "0", "1", "-", "0", "1", "T", "0", "0", ":", "0", "0", ":">>
    \o (IF info.startTime < 10 THEN <<"0">> ELSE << >>)
    \o DecimalString(info.startTime) \o <<"Z">>

\* HeaderMap::getXValue(): the header's value, the empty string when the
\* header is not in the map
HeaderValue(h) == IF has_value(h) THEN value(h) ELSE << >>

\* What reading through a null pointer, or front() of an empty vector, may
\* hand back when the process survives it
GarbageStrings == { << >>, <<"?">> }

\* ----------------------------------------------------------------------
\* AttrUtils (attr_utils.cc)
\* ----------------------------------------------------------------------
\* The result of one call: the container attributes_, the local attr_fields
\* when the call returns, how the call ended ("ok", "threw" for an exception
\* leaving build(), "crashed" when the process dies), and whether it read
\* through an absent optional, a null pointer or an empty list
Result(attributes, fields, status, illegal) ==
  [attributes |-> attributes, attr_fields |-> fields,
   status |-> status, illegal |-> illegal]

\* std::vector::front(): undefined on an empty vector
FrontResults(attributes, fields, key, list) ==
  IF Len(list) > 0
  THEN {Result(attributes, Put(fields, key, ExprValueUtil_stringValue(list[1])),
               "ok", FALSE)}
  ELSE {Result(attributes, fields, "crashed", TRUE)}
       \cup {Result(attributes, Put(fields, key, ExprValueUtil_stringValue(g)),
                    "ok", TRUE) : g \in GarbageStrings}

\* AttrUtils::getOrInsert (lines 620-625); attributes_[key] default-inserts
getOrInsert(attributes, key) ==
  LET reset == IF contains(attributes, key)
               THEN Put(attributes, key, EmptyMap) ELSE attributes
      after == IF contains(reset, key) THEN reset ELSE Put(reset, key, EmptyMap)
  IN  [attributes |-> after, fields |-> after[key]]

\* AttrUtils::requestSet (lines 243-336).  "auto attr_fields" is a copy of the
\* map getOrInsert returns a reference to: the assignments go to the copy
requestSet(attributes, path, info, headers) ==
  LET ins == getOrInsert(attributes, REQUEST_TOKEN)
      attr_fields == ins.fields
      Ok(f) == {Result(ins.attributes, f, "ok", FALSE)}
      Set(k, v) == Ok(Put(attr_fields, k, v))
      Skip == Ok(attr_fields)
      IfHeaders(k, h) ==
        IF headers # nullptr
        THEN Set(k, ExprValueUtil_stringValue(HeaderValue(value(headers)[h])))
        ELSE Skip
  IN  IF ~contains(request_tokens, path) THEN Skip
      ELSE CASE request_tokens[path] = "PATH" -> IfHeaders(REQUEST_PATH_TOKEN, "Path")
             [] request_tokens[path] = "URL_PATH" ->
                  IF headers # nullptr /\ value(headers).Path # nullptr
                  THEN \* find() runs on the parameter path, the field name
                       LET end == Max(Find(path, NUL), Find(path, "?"))
                       IN  Set(REQUEST_URL_PATH_TOKEN, ExprValueUtil_stringValue(
                             substr(value(value(headers).Path), 0, end)))
                  ELSE Skip
             [] request_tokens[path] = "HOST" -> IfHeaders(REQUEST_HOST_TOKEN, "Host")
             [] request_tokens[path] = "SCHEME" -> IfHeaders(REQUEST_SCHEME_TOKEN, "Scheme")
             [] request_tokens[path] = "METHOD" -> IfHeaders(REQUEST_METHOD_TOKEN, "Method")
             [] request_tokens[path] = "HEADERS" -> Skip
             [] request_tokens[path] = "REFERER" -> IfHeaders(REQUEST_REFERER_TOKEN, "Referer")
             [] request_tokens[path] = "USERAGENT" ->
                  IfHeaders(REQUEST_USERAGENT_TOKEN, "UserAgent")
             [] request_tokens[path] = "TIME" ->
                  Set(REQUEST_TIME_TOKEN, ExprValueUtil_stringValue(getTs(info)))
             [] request_tokens[path] = "ID" -> IfHeaders(REQUEST_ID_TOKEN, "RequestId")
             [] request_tokens[path] = "PROTOCOL" ->
                  IF has_value(info.protocol)
                  THEN Set(REQUEST_PROTOCOL_TOKEN, ExprValueUtil_optionalStringValue(
                             Some(HttpProtocolStrings[value(info.protocol) + 1])))
                  ELSE \* optional::value() throws bad_optional_access
                       {Result(ins.attributes, attr_fields, "threw", TRUE)}
             [] request_tokens[path] = "DURATION" ->
                  IF has_value(info.requestComplete)
                  THEN Set(REQUEST_DURATION_TOKEN, ExprValueUtil_stringValue(
                             formatDuration(value(info.requestComplete))))
                  ELSE Skip
             [] request_tokens[path] = "SIZE" ->
                  IF headers # nullptr /\ value(headers).ContentLength # nullptr
                  THEN LET length == SimpleAtoi(value(value(headers).ContentLength))
                       IN  IF has_value(length)
                           THEN Set(REQUEST_SIZE_TOKEN,
                                    ExprValueUtil_int64Value(value(length)))
                           ELSE Skip
                  ELSE Set(REQUEST_SIZE_TOKEN,
                           ExprValueUtil_uint64Value(info.bytesReceived))
             [] request_tokens[path] = "TOTAL_SIZE" ->
                  \* parsed as ((bytesReceived() + headers) != nullptr) ? ... : 0
                  IF headers # nullptr
                  THEN Set(REQUEST_TOTAL_SIZE_TOKEN,
                           ExprValueUtil_uint64Value(value(headers).byteSize))
                  ELSE IF info.bytesReceived = 0
                  THEN Set(REQUEST_TOTAL_SIZE_TOKEN, ExprValueUtil_uint64Value(0))
                  ELSE \* headers->byteSize() through the null pointer
                       {Result(ins.attributes, attr_fields, "crashed", TRUE)}
                       \cup {Result(ins.attributes,
                                    Put(attr_fields, REQUEST_TOTAL_SIZE_TOKEN,
                                        ExprValueUtil_uint64Value(Len(g))),
                                    "ok", TRUE) : g \in GarbageStrings}

\* AttrUtils::responseSet (lines 338-377); case SIZE has no break and falls
\* through to TOTAL_SIZE
responseSet(attributes, path, info) ==
  LET ins == getOrInsert(attributes, RESPONSE_TOKEN)
      attr_fields == ins.fields
      Ok(f) == {Result(ins.attributes, f, "ok", FALSE)}
      Set(k, v) == Ok(Put(attr_fields, k, v))
      Skip == Ok(attr_fields)
  IN  IF ~contains(response_tokens, path) THEN Skip
      ELSE CASE response_tokens[path] = "CODE" ->
                  IF has_value(info.responseCode)
                  THEN Set(RESPONSE_CODE_TOKEN,
                           ExprValueUtil_uint64Value(value(info.responseCode)))
                  ELSE Skip
             [] response_tokens[path] = "CODE_DETAILS" ->
                  Set(RESPONSE_CODE_DETAILS_TOKEN,
                      ExprValueUtil_optionalStringValue(info.responseCodeDetails))
             [] response_tokens[path] = "FLAGS" ->
                  Set(RESPONSE_FLAGS_TOKEN, ExprValueUtil_uint64Value(info.responseFlags))
             [] response_tokens[path] = "GRPC_STATUS" -> Skip
             [] response_tokens[path] = "HEADERS" -> Skip
             [] response_tokens[path] = "TRAILERS" -> Skip
             [] response_tokens[path] = "SIZE" ->
                  Ok(Put(Put(attr_fields, RESPONSE_SIZE_TOKEN,
                             ExprValueUtil_uint64Value(info.bytesSent)),
                         RESPONSE_TOTAL_SIZE_TOKEN,
                         ExprValueUtil_uint64Value(info.bytesReceived)))
             [] response_tokens[path] = "TOTAL_SIZE" ->
                  Set(RESPONSE_TOTAL_SIZE_TOKEN,
                      ExprValueUtil_uint64Value(info.bytesReceived))

\* AttrUtils::destinationSet (lines 379-396)
destinationSet(attributes, path, info) ==
  LET ins == getOrInsert(attributes, DESTINATION_TOKEN)
      attr_fields == ins.fields
      Ok(f) == {Result(ins.attributes, f, "ok", FALSE)}
      addr == info.downstreamLocalAddress
  IN  IF addr = nullptr THEN Ok(attr_fields)
      ELSE IF path = DESTINATION_ADDRESS_TOKEN
      THEN Ok(Put(attr_fields, DESTINATION_ADDRESS_TOKEN,
                  ExprValueUtil_stringValue(value(addr).asString)))
      ELSE IF path = DESTINATION_PORT_TOKEN
      THEN IF value(addr).ip = nullptr THEN Ok(attr_fields)
           ELSE Ok(Put(attr_fields, DESTINATION_PORT_TOKEN,
                       ExprValueUtil_uint64Value(value(value(addr).ip).port)))
      ELSE Ok(attr_fields)

\* AttrUtils::sourceSet (lines 398-421)
sourceSet(attributes, path, info) ==
  LET created == IF ~contains(attributes, SOURCE_TOKEN)
                 THEN Put(attributes, SOURCE_TOKEN, EmptyMap) ELSE attributes
      attr_fields == created[SOURCE_TOKEN]
      Ok(f) == {Result(created, f, "ok", FALSE)}
  IN  IF info.upstreamHost = nullptr THEN Ok(attr_fields)
      ELSE LET addr == value(info.upstreamHost).address
           IN  IF addr = nullptr THEN Ok(attr_fields)
               ELSE IF path = SOURCE_ADDRESS_TOKEN
               THEN Ok(Put(attr_fields, SOURCE_ADDRESS_TOKEN,
                           ExprValueUtil_stringValue(value(addr).asString)))
               ELSE IF path = SOURCE_PORT_TOKEN
               THEN IF value(addr).ip = nullptr THEN Ok(attr_fields)
                    ELSE Ok(Put(attr_fields, SOURCE_PORT_TOKEN,
                                ExprValueUtil_uint64Value(value(value(addr).ip).port)))
               ELSE Ok(attr_fields)

\* AttrUtils::upstreamSet (lines 423-501); case SUBJECT_PEER_CERTIFICATE
\* assigns under UPSTREAM_SUBJECT_LOCAL_CERTIFICATE_TOKEN
upstreamSet(attributes, path, info) ==
  LET ins == getOrInsert(attributes, UPSTREAM_TOKEN)
      attr_fields == ins.fields
      Ok(f) == {Result(ins.attributes, f, "ok", FALSE)}
      Set(k, v) == Ok(Put(attr_fields, k, v))
      Skip == Ok(attr_fields)
      upstreamHost == info.upstreamHost
      upstreamSsl == info.upstreamSslConnection
      Front(k, list) == FrontResults(ins.attributes, attr_fields, k, list)
  IN  IF ~contains(upstream_tokens, path) THEN Skip
      ELSE CASE upstream_tokens[path] = "ADDRESS" ->
                  IF upstreamHost # nullptr /\ value(upstreamHost).address # nullptr
                  THEN Set(UPSTREAM_ADDRESS_TOKEN, ExprValueUtil_stringValue(
                             value(value(upstreamHost).address).asString))
                  ELSE Skip
             [] upstream_tokens[path] = "PORT" ->
                  IF /\ upstreamHost # nullptr
                     /\ value(upstreamHost).address # nullptr
                     /\ value(value(upstreamHost).address).ip # nullptr
                  THEN Set(UPSTREAM_PORT_TOKEN, ExprValueUtil_uint64Value(
                             value(value(value(upstreamHost).address).ip).port))
                  ELSE Skip
             [] upstream_tokens[path] = "TLS_VERSION" ->
                  IF upstreamSsl # nullptr
                  THEN Set(UPSTREAM_TLS_VERSION_TOKEN,
                           ExprValueUtil_stringValue(value(upstreamSsl).tlsVersion))
                  ELSE Skip
             [] upstream_tokens[path] = "SUBJECT_LOCAL_CERTIFICATE" ->
                  IF upstreamSsl # nullptr
                  THEN Set(UPSTREAM_SUBJECT_LOCAL_CERTIFICATE_TOKEN,
                           ExprValueUtil_stringValue(
                             value(upstreamSsl).subjectLocalCertificate))
                  ELSE Skip
             [] upstream_tokens[path] = "SUBJECT_PEER_CERTIFICATE" ->
                  IF upstreamSsl # nullptr
                  THEN Set(UPSTREAM_SUBJECT_LOCAL_CERTIFICATE_TOKEN,
                           ExprValueUtil_stringValue(
                             value(upstreamSsl).subjectPeerCertificate))
                  ELSE Skip
             [] upstream_tokens[path] = "DNS_SAN_LOCAL_CERTIFICATE" ->
                  IF upstreamSsl # nullptr
                  THEN Front(UPSTREAM_DNS_SAN_LOCAL_CERTIFICATE_TOKEN,
                             value(upstreamSsl).dnsSansLocalCertificate)
                  ELSE Skip
             [] upstream_tokens[path] = "DNS_SAN_PEER_CERTIFICATE" ->
                  IF upstreamSsl # nullptr
                  THEN Front(UPSTREAM_DNS_SAN_PEER_CERTIFICATE_TOKEN,
                             value(upstreamSsl).dnsSansPeerCertificate)
                  ELSE Skip
             [] upstream_tokens[path] = "URI_SAN_LOCAL_CERTIFICATE" ->
                  IF upstreamSsl # nullptr
                  THEN Front(UPSTREAM_URI_SAN_LOCAL_CERTIFICATE_TOKEN,
                             value(upstreamSsl).uriSanLocalCertificate)
                  ELSE Skip
             [] upstream_tokens[path] = "URI_SAN_PEER_CERTIFICATE" ->
                  IF upstreamSsl # nullptr
                  THEN Front(UPSTREAM_URI_SAN_PEER_CERTIFICATE_TOKEN,
                             value(upstreamSsl).uriSanPeerCertificate)
                  ELSE Skip
             [] upstream_tokens[path] = "LOCAL_ADDRESS" ->
                  IF info.upstreamLocalAddress # nullptr
                  THEN Set(UPSTREAM_LOCAL_ADDRESS_TOKEN, ExprValueUtil_stringValue(
                             value(info.upstreamLocalAddress).asString))
                  ELSE Skip
             [] upstream_tokens[path] = "TRANSPORT_FAILURE_REASON" ->
                  Set(UPSTREAM_TRANSPORT_FAILURE_REASON_TOKEN,
                      ExprValueUtil_stringValue(info.upstreamTransportFailureReason))

\* AttrUtils::connectionSet (lines 503-580); case MTLS returns at once
connectionSet(attributes, path, info) ==
  LET ins == getOrInsert(attributes, CONNECTION_TOKEN)
      attr_fields == ins.fields
      Ok(f) == {Result(ins.attributes, f, "ok", FALSE)}
      Set(k, v) == Ok(Put(attr_fields, k, v))
      Skip == Ok(attr_fields)
      connId == info.connectionID
      downstreamSsl == info.downstreamSslConnection
      Front(k, list) == FrontResults(ins.attributes, attr_fields, k, list)
  IN  IF ~contains(connection_tokens, path) THEN Skip
      ELSE CASE connection_tokens[path] = "ID" ->
                  IF has_value(connId)
                  THEN Set(CONNECTION_ID_TOKEN, ExprValueUtil_uint64Value(value(connId)))
                  ELSE Skip
             [] connection_tokens[path] = "MTLS" -> Skip
             [] connection_tokens[path] = "REQUESTED_SERVER_NAME" ->
                  Set(CONNECTION_REQUESTED_SERVER_NAME_TOKEN,
                      ExprValueUtil_stringValue(info.requestedServerName))
             [] connection_tokens[path] = "TLS_VERSION" ->
                  IF downstreamSsl # nullptr
                  THEN Set(CONNECTION_TLS_VERSION_TOKEN,
                           ExprValueUtil_stringValue(value(downstreamSsl).tlsVersion))
                  ELSE Skip
             [] connection_tokens[path] = "SUBJECT_LOCAL_CERTIFICATE" ->
                  IF downstreamSsl # nullptr
                  THEN Set(CONNECTION_SUBJECT_LOCAL_CERTIFICATE_TOKEN,
                           ExprValueUtil_stringValue(
                             value(downstreamSsl).subjectLocalCertificate))
                  ELSE Skip
             [] connection_tokens[path] = "SUBJECT_PEER_CERTIFICATE" ->
                  IF downstreamSsl # nullptr
                  THEN Set(CONNECTION_SUBJECT_PEER_CERTIFICATE_TOKEN,
                           ExprValueUtil_stringValue(
                             value(downstreamSsl).subjectPeerCertificate))
                  ELSE Skip
             [] connection_tokens[path] = "DNS_SAN_LOCAL_CERTIFICATE" ->
                  IF downstreamSsl # nullptr
                  THEN Front(CONNECTION_DNS_SAN_LOCAL_CERTIFICATE_TOKEN,
                             value(downstreamSsl).dnsSansLocalCertificate)
                  ELSE Skip
             [] connection_tokens[path] = "DNS_SAN_PEER_CERTIFICATE" ->
                  IF downstreamSsl # nullptr
                  THEN Front(CONNECTION_DNS_SAN_PEER_CERTIFICATE_TOKEN,
                             value(downstreamSsl).dnsSansPeerCertificate)
                  ELSE Skip
             [] connection_tokens[path] = "URI_SAN_LOCAL_CERTIFICATE" ->
                  IF downstreamSsl # nullptr
                  THEN Front(CONNECTION_URI_SAN_LOCAL_CERTIFICATE_TOKEN,
                             value(downstreamSsl).uriSanLocalCertificate)
                  ELSE Skip
             [] connection_tokens[path] = "URI_SAN_PEER_CERTIFICATE" ->
                  IF downstreamSsl # nullptr
                  THEN Front(CONNECTION_URI_SAN_PEER_CERTIFICATE_TOKEN,
                             value(downstreamSsl).uriSanPeerCertificate)
                  ELSE Skip
             [] connection_tokens[path] = "TERMINATION_DETAILS" ->
                  IF downstreamSsl # nullptr
                  THEN Set(CONNECTION_TERMINATION_DETAILS_TOKEN,
                           ExprValueUtil_optionalStringValue(
                             info.connectionTerminationDetails))
                  ELSE Skip

\* AttrUtils::metadataSet (lines 582-593): writes through attributes_ itself
metadataSet(attributes, info) ==
  IF ~contains(attributes, METADATA_TOKEN)
  THEN LET filter_metadata == info.dynamicMetadata
           mirrored == [k \in DOMAIN filter_metadata |->
                          ExprValueUtil_structValue(filter_metadata[k])]
       IN  {Result(Put(attributes, METADATA_TOKEN,
                       Put(EmptyMap, METADATA_FILTER_METADATA_TOKEN,
                           ExprValueUtil_structValue(mirrored))),
                   EmptyMap, "ok", FALSE)}
  ELSE {Result(attributes, EmptyMap, "ok", FALSE)}

\* A filter_state resolver that opens the namespace's bucket
filterStateSet_with_bucket(attributes) ==
  {[attributes |-> Put(attributes, FILTER_STATE_TOKEN, EmptyMap),
    attr_fields |-> EmptyMap, status |-> "ok", illegal |-> FALSE]}

\* AttrUtils::filterStateSet (lines 606-608)
filterStateSet(attributes) == {Result(attributes, EmptyMap, "ok", FALSE)}

\* AttrUtils::findValue (lines 210-241)
findValue(attributes, root_tok, sub_tok, info, headers) ==
  IF ~contains(property_tokens, root_tok)
  THEN {Result(attributes, EmptyMap, "ok", FALSE)}
  ELSE CASE property_tokens[root_tok] = "REQUEST" ->
              requestSet(attributes, sub_tok, info, headers)
         [] property_tokens[root_tok] = "RESPONSE" ->
              responseSet(attributes, sub_tok, info)
         [] property_tokens[root_tok] = "CONNECTION" ->
              connectionSet(attributes, sub_tok, info)
         [] property_tokens[root_tok] = "UPSTREAM" ->
              upstreamSet(attributes, sub_tok, info)
         [] property_tokens[root_tok] = "SOURCE" ->
              sourceSet(attributes, sub_tok, info)
         [] property_tokens[root_tok] = "DESTINATION" ->
              destinationSet(attributes, sub_tok, info)
         [] property_tokens[root_tok] = "METADATA" ->
              IF sub_tok = << >> THEN metadataSet(attributes, info)
              ELSE {Result(attributes, EmptyMap, "ok", FALSE)}
         [] property_tokens[root_tok] = "FILTER_STATE" ->
              IF sub_tok = << >> THEN filterStateSet(attributes)
              ELSE {Result(attributes, EmptyMap, "ok", FALSE)}

\* ----------------------------------------------------------------------
\* Attributes (attributes.cc)
\* ----------------------------------------------------------------------
\* AttributeId::from_path: splits the path once, on its first '.', and looks
\* the namespace up; nullopt for a namespace that is not a root token
from_path(path) ==
  LET dot == Find(path, ".")
      root == IF dot = npos THEN path ELSE substr(path, 0, dot)
      sub == IF dot = npos THEN << >> ELSE substr(path, dot + 1, Len(path))
  IN  IF contains(property_tokens, root)
      THEN Some([root |-> property_tokens[root], root_name |-> root, sub_name |-> sub])
      ELSE nullopt

\* The field tables of the source and destination namespaces
address_tokens ==
  Put(Put(EmptyMap, SOURCE_ADDRESS_TOKEN, "ADDRESS"), SOURCE_PORT_TOKEN, "PORT")

\* AttributeId::sub(tok): the field's token in the table of the id's
\* namespace, nullopt (the call returns false) when the field is not in it
AttributeId_sub(attr_id, table) ==
  IF contains(table, attr_id.sub_name) THEN Some(table[attr_id.sub_name])
  ELSE nullopt

\* The result of one getter: the optional<Value> it returns, how the call
\* ended, and whether it read through an absent optional, a null pointer or
\* an empty list
Got(ret, status, illegal) == [ret |-> ret, status |-> status, illegal |-> illegal]

Return(v) == {Got(Some(v), "ok", FALSE)}

ReturnNullopt == {Got(nullopt, "ok", FALSE)}

\* std::vector::front(): undefined on an empty vector
FrontValue(list) ==
  IF Len(list) > 0 THEN Return(ValueUtil_stringValue(list[1]))
  ELSE {Got(nullopt, "crashed", TRUE)}
       \cup {Got(Some(ValueUtil_stringValue(g)), "ok", TRUE) : g \in GarbageStrings}

\* Attributes::getRequest, the return every break of the switch leads to
\* (attributes.cc line 174)
getRequest_end == Return(ValueUtil_nullValue)

\* Attributes::getRequest (attributes.cc lines 92-175)
getRequest(attr_id, info, headers) ==
  LET tok == AttributeId_sub(attr_id, request_tokens)
      Break == getRequest_end
      IfHeaders(h) ==
        IF headers # nullptr
        THEN Return(ValueUtil_stringValue(HeaderValue(value(headers)[h])))
        ELSE Break
  IN  IF ~has_value(tok) THEN ReturnNullopt
      ELSE CASE value(tok) = "PATH" -> IfHeaders("Path")
             [] value(tok) = "URL_PATH" ->
                  IF headers # nullptr /\ value(headers).Path # nullptr
                  THEN LET path == value(value(headers).Path)
                           end == Max(Find(path, NUL), Find(path, "?"))
                       IN  Return(ValueUtil_stringValue(substr(path, 0, end)))
                  ELSE Break
             [] value(tok) = "HOST" -> IfHeaders("Host")
             [] value(tok) = "SCHEME" -> IfHeaders("Scheme")
             [] value(tok) = "METHOD" -> IfHeaders("Method")
             [] value(tok) = "HEADERS" -> Break
             [] value(tok) = "REFERER" -> IfHeaders("Referer")
             [] value(tok) = "USERAGENT" -> IfHeaders("UserAgent")
             [] value(tok) = "TIME" -> Return(ValueUtil_stringValue(getTs(info)))
             [] value(tok) = "ID" -> IfHeaders("RequestId")
             [] value(tok) = "PROTOCOL" ->
                  IF has_value(info.protocol)
                  THEN Return(ValueUtil_optionalStringValue(
                                Some(HttpProtocolStrings[value(info.protocol) + 1])))
                  ELSE \* optional::value() throws bad_optional_access
                       {Got(nullopt, "threw", TRUE)}
             [] value(tok) = "DURATION" ->
                  IF has_value(info.requestComplete)
                  THEN Return(ValueUtil_stringValue(
                                formatDuration(value(info.requestComplete))))
                  ELSE Break
             [] value(tok) = "SIZE" ->
                  IF headers # nullptr /\ value(headers).ContentLength # nullptr
                  THEN LET length == SimpleAtoi(value(value(headers).ContentLength))
                       IN  IF has_value(length)
                           THEN Return(ValueUtil_uint64Value(value(length)))
                           ELSE Break
                  ELSE Return(ValueUtil_uint64Value(info.bytesReceived))
             [] value(tok) = "TOTAL_SIZE" ->
                  \* parsed as ((bytesReceived() + headers) != nullptr) ? ... : 0
                  IF headers # nullptr
                  THEN Return(ValueUtil_uint64Value(value(headers).byteSize))
                  ELSE IF info.bytesReceived = 0
                  THEN Return(ValueUtil_uint64Value(0))
                  ELSE \* headers->byteSize() through the null pointer
                       {Got(nullopt, "crashed", TRUE)}
                       \cup {Got(Some(ValueUtil_uint64Value(Len(g))), "ok", TRUE) :
                               g \in GarbageStrings}

\* Attributes::getResponse, the return every break of the switch leads to
\* (attributes.cc line 208)
getResponse_end == ReturnNullopt

\* Attributes::getResponse (attributes.cc lines 177-209)
getResponse(attr_id, info) ==
  LET tok == AttributeId_sub(attr_id, response_tokens)
  IN  IF ~has_value(tok) THEN ReturnNullopt
      ELSE CASE value(tok) = "CODE" ->
                  IF has_value(info.responseCode)
                  THEN Return(ValueUtil_uint64Value(value(info.responseCode)))
                  ELSE getResponse_end
             [] value(tok) = "CODE_DETAILS" ->
                  Return(ValueUtil_optionalStringValue(info.responseCodeDetails))
             [] value(tok) = "FLAGS" -> Return(ValueUtil_uint64Value(info.responseFlags))
             [] value(tok) = "GRPC_STATUS" -> getResponse_end
             [] value(tok) = "HEADERS" -> getResponse_end
             [] value(tok) = "TRAILERS" -> getResponse_end
             [] value(tok) = "SIZE" -> Return(ValueUtil_uint64Value(info.bytesSent))
             [] value(tok) = "TOTAL_SIZE" ->
                  Return(ValueUtil_uint64Value(info.bytesReceived))

\* Attributes::getSource (attributes.cc lines 211-236)
getSource(attr_id, info) ==
  LET tok == AttributeId_sub(attr_id, address_tokens)
  IN  IF ~has_value(tok) THEN ReturnNullopt
      ELSE IF info.upstreamHost = nullptr THEN ReturnNullopt
      ELSE LET addr == value(info.upstreamHost).address
           IN  IF addr = nullptr THEN Return(ValueUtil_nullValue)
               ELSE CASE value(tok) = "ADDRESS" ->
                           Return(ValueUtil_stringValue(value(addr).asString))
                      [] value(tok) = "PORT" ->
                           IF value(addr).ip = nullptr THEN Return(ValueUtil_nullValue)
                           ELSE Return(ValueUtil_uint64Value(value(value(addr).ip).port))

\* Attributes::getDestination (attributes.cc lines 238-260)
getDestination(attr_id, info) ==
  LET tok == AttributeId_sub(attr_id, address_tokens)
      addr == info.downstreamLocalAddress
  IN  IF ~has_value(tok) THEN ReturnNullopt
      ELSE IF addr = nullptr THEN Return(ValueUtil_nullValue)
      ELSE CASE value(tok) = "ADDRESS" ->
                  Return(ValueUtil_stringValue(value(addr).asString))
             [] value(tok) = "PORT" ->
                  IF value(addr).ip = nullptr THEN Return(ValueUtil_nullValue)
                  ELSE Return(ValueUtil_uint64Value(value(value(addr).ip).port))

\* Attributes::getUpstream, the return every break of the switch leads to
\* (attributes.cc line 328)
getUpstream_end == ReturnNullopt

\* Attributes::getUpstream (attributes.cc lines 262-329)
getUpstream(attr_id, info) ==
  LET tok == AttributeId_sub(attr_id, upstream_tokens)
      upstreamHost == info.upstreamHost
      upstreamSsl == info.upstreamSslConnection
  IN  IF ~has_value(tok) THEN ReturnNullopt
      ELSE CASE value(tok) = "ADDRESS" ->
                  IF upstreamHost # nullptr /\ value(upstreamHost).address # nullptr
                  THEN Return(ValueUtil_stringValue(
                                value(value(upstreamHost).address).asString))
                  ELSE getUpstream_end
             [] value(tok) = "PORT" ->
                  IF /\ upstreamHost # nullptr
                     /\ value(upstreamHost).address # nullptr
                     /\ value(value(upstreamHost).address).ip # nullptr
                  THEN Return(ValueUtil_uint64Value(
                                value(value(value(upstreamHost).address).ip).port))
                  ELSE getUpstream_end
             [] value(tok) = "TLS_VERSION" ->
                  IF upstreamSsl # nullptr
                  THEN Return(ValueUtil_stringValue(value(upstreamSsl).tlsVersion))
                  ELSE getUpstream_end
             [] value(tok) = "SUBJECT_LOCAL_CERTIFICATE" ->
                  IF upstreamSsl # nullptr
                  THEN Return(ValueUtil_stringValue(
                                value(upstreamSsl).subjectLocalCertificate))
                  ELSE getUpstream_end
             [] value(tok) = "SUBJECT_PEER_CERTIFICATE" ->
                  IF upstreamSsl # nullptr
                  THEN Return(ValueUtil_stringValue(
                                value(upstreamSsl).subjectPeerCertificate))
                  ELSE getUpstream_end
             [] value(tok) = "DNS_SAN_LOCAL_CERTIFICATE" ->
                  IF upstreamSsl # nullptr
                  THEN FrontValue(value(upstreamSsl).dnsSansLocalCertificate)
                  ELSE getUpstream_end
             [] value(tok) = "DNS_SAN_PEER_CERTIFICATE" ->
                  IF upstreamSsl # nullptr
                  THEN FrontValue(value(upstreamSsl).dnsSansPeerCertificate)
                  ELSE getUpstream_end
             [] value(tok) = "URI_SAN_LOCAL_CERTIFICATE" ->
                  IF upstreamSsl # nullptr
                  THEN FrontValue(value(upstreamSsl).uriSanLocalCertificate)
                  ELSE getUpstream_end
             [] value(tok) = "URI_SAN_PEER_CERTIFICATE" ->
                  IF upstreamSsl # nullptr
                  THEN FrontValue(value(upstreamSsl).uriSanPeerCertificate)
                  ELSE getUpstream_end
             [] value(tok) = "LOCAL_ADDRESS" ->
                  IF info.upstreamLocalAddress # nullptr
                  THEN Return(ValueUtil_stringValue(
                                value(info.upstreamLocalAddress).asString))
                  ELSE getUpstream_end
             [] value(tok) = "TRANSPORT_FAILURE_REASON" ->
                  Return(ValueUtil_stringValue(info.upstreamTransportFailureReason))

\* getConnection ending as getRequest does, with a Null value
getConnection_end_with_null == Return(ValueUtil_nullValue)

\* Attributes::getConnection, the return every break of the switch leads to
\* (attributes.cc line 395)
getConnection_end == ReturnNullopt

\* Attributes::getConnection (attributes.cc lines 331-396)
getConnection(attr_id, info) ==
  LET tok == AttributeId_sub(attr_id, connection_tokens)
      connId == info.connectionID
      downstreamSsl == info.downstreamSslConnection
  IN  IF ~has_value(tok) THEN ReturnNullopt
      ELSE CASE value(tok) = "ID" ->
                  IF has_value(connId)
                  THEN Return(ValueUtil_uint64Value(value(connId)))
                  ELSE getConnection_end
             [] value(tok) = "MTLS" -> ReturnNullopt
             [] value(tok) = "REQUESTED_SERVER_NAME" ->
                  Return(ValueUtil_stringValue(info.requestedServerName))
             [] value(tok) = "TLS_VERSION" ->
                  IF downstreamSsl # nullptr
                  THEN Return(ValueUtil_stringValue(value(downstreamSsl).tlsVersion))
                  ELSE getConnection_end
             [] value(tok) = "SUBJECT_LOCAL_CERTIFICATE" ->
                  IF downstreamSsl # nullptr
                  THEN Return(ValueUtil_stringValue(
                                value(downstreamSsl).subjectLocalCertificate))
                  ELSE getConnection_end
             [] value(tok) = "SUBJECT_PEER_CERTIFICATE" ->
                  IF downstreamSsl # nullptr
                  THEN Return(ValueUtil_stringValue(
                                value(downstreamSsl).subjectPeerCertificate))
                  ELSE getConnection_end
             [] value(tok) = "DNS_SAN_LOCAL_CERTIFICATE" ->
                  IF downstreamSsl # nullptr
                  THEN FrontValue(value(downstreamSsl).dnsSansLocalCertificate)
                  ELSE getConnection_end
             [] value(tok) = "DNS_SAN_PEER_CERTIFICATE" ->
                  IF downstreamSsl # nullptr
                  THEN FrontValue(value(downstreamSsl).dnsSansPeerCertificate)
                  ELSE getConnection_end
             [] value(tok) = "URI_SAN_LOCAL_CERTIFICATE" ->
                  IF downstreamSsl # nullptr
                  THEN FrontValue(value(downstreamSsl).uriSanLocalCertificate)
                  ELSE getConnection_end
             [] value(tok) = "URI_SAN_PEER_CERTIFICATE" ->
                  IF downstreamSsl # nullptr
                  THEN FrontValue(value(downstreamSsl).uriSanPeerCertificate)
                  ELSE getConnection_end
             [] value(tok) = "TERMINATION_DETAILS" ->
                  IF downstreamSsl # nullptr
                  THEN Return(ValueUtil_optionalStringValue(
                                info.connectionTerminationDetails))
                  ELSE getConnection_end

\* Attributes::getMetadata (attributes.cc lines 398-416)
getMetadata == ReturnNullopt

\* Attributes::getFilterState (attributes.cc line 429)
getFilterState == ReturnNullopt

\* Attributes::getAttribute (attributes.cc lines 70-90)
getAttribute(attr_id, info, headers) ==
  CASE attr_id.root = "REQUEST" -> getRequest(attr_id, info, headers)
    [] attr_id.root = "RESPONSE" -> getResponse(attr_id, info)
    [] attr_id.root = "SOURCE" -> getSource(attr_id, info)
    [] attr_id.root = "DESTINATION" -> getDestination(attr_id, info)
    [] attr_id.root = "CONNECTION" -> getConnection(attr_id, info)
    [] attr_id.root = "UPSTREAM" -> getUpstream(attr_id, info)
    [] attr_id.root = "METADATA" -> getMetadata
    [] attr_id.root = "FILTER_STATE" -> getFilterState

\* Attributes::buildAttributesValue, one attribute id: a getter that declines
\* (nullopt) adds nothing; a value goes into the namespace's map, which is
\* created on its first entry
buildAttributeValue(entries, attr_id, ret) ==
  IF ~has_value(ret) THEN entries
  ELSE LET bucket == IF contains(entries, attr_id.root_name)
                     THEN entries[attr_id.root_name] ELSE EmptyMap
       IN  Put(entries, attr_id.root_name, Put(bucket, attr_id.sub_name, value(ret)))

\* ----------------------------------------------------------------------
\* Inputs: stream infos, request headers and path lists
\* ----------------------------------------------------------------------
\* Longest path list of one build
MaxPaths == 2

Dot(ns, field) == ns \o <<".">> \o field

SeqsUpTo(S, n) == UNION {[1..k -> S] : k \in 0..n}

\* A TLS session with two entries in every SAN list
DownstreamSsl ==
  [tlsVersion |-> <<"1", ".", "3">>,
   subjectLocalCertificate |-> <<"C", "N", "=", "l">>,
   subjectPeerCertificate |-> <<"C", "N", "=", "p">>,
   dnsSansLocalCertificate |-> << <<"d", "l", "1">>, <<"d", "l", "2">> >>,
   dnsSansPeerCertificate |-> << <<"d", "p", "1">>, <<"d", "p", "2">> >>,
   uriSanLocalCertificate |-> << <<"u", "l", "1">>, <<"u", "l", "2">> >>,
   uriSanPeerCertificate |-> << <<"u", "p", "1">>, <<"u", "p", "2">> >>,
   peerCertificatePresented |-> TRUE]

UpstreamSsl ==
  [tlsVersion |-> <<"1", ".", "2">>,
   subjectLocalCertificate |-> <<"C", "N", "=", "L">>,
   subjectPeerCertificate |-> <<"C", "N", "=", "P">>,
   dnsSansLocalCertificate |-> << <<"D", "L", "1">>, <<"D", "L", "2">> >>,
   dnsSansPeerCertificate |-> << <<"D", "P", "1">>, <<"D", "P", "2">> >>,
   uriSanLocalCertificate |-> << <<"U", "L", "1">>, <<"U", "L", "2">> >>,
   uriSanPeerCertificate |-> << <<"U", "P", "1">>, <<"U", "P", "2">> >>,
   peerCertificatePresented |-> FALSE]

\* A TLS session whose certificates carry no SAN at all
NoSans(ssl) ==
  [ssl EXCEPT !.dnsSansLocalCertificate = << >>, !.dnsSansPeerCertificate = << >>,
              !.uriSanLocalCertificate = << >>, !.uriSanPeerCertificate = << >>]

IpAddress == [asString |-> <<"1", ".", "2", ":", "8", "0">>, ip |-> Some([port |-> 80])]

PipeAddress == [asString |-> <<"/", "p">>, ip |-> nullptr]

\* The stream info of a stream on which nothing has happened yet
DefaultStreamInfo ==
  [protocol |-> nullopt,
   startTime |-> 7,
   requestComplete |-> nullopt,
   bytesReceived |-> 0,
   bytesSent |-> 0,
   responseCode |-> nullopt,
   responseCodeDetails |-> nullopt,
   responseFlags |-> 0,
   connectionID |-> nullopt,
   requestedServerName |-> << >>,
   connectionTerminationDetails |-> nullopt,
   downstreamSslConnection |-> nullptr,
   downstreamLocalAddress |-> nullptr,
   upstreamHost |-> nullptr,
   upstreamSslConnection |-> nullptr,
   upstreamLocalAddress |-> nullptr,
   upstreamTransportFailureReason |-> << >>,
   dynamicMetadata |-> EmptyMap]

\* Request headers with the given content-length header (nullptr: none)
Headers(content_length) ==
  [Path |-> Some(<<"/", "a", "?", "q">>),
   Host |-> Some(<<"h">>),
   Scheme |-> Some(<<"h", "t", "t", "p">>),
   Method |-> Some(<<"G", "E", "T">>),
   Referer |-> nullptr,
   UserAgent |-> Some(<<"u", "a">>),
   RequestId |-> Some(<<"r", "1">>),
   ContentLength |-> content_length,
   byteSize |-> 9]

ContentLengths ==
  {nullptr, Some(<<"4", "2">>), Some(<<"0">>), Some(<<" ", "7">>),
   Some(<<"a", "b", "c">>), Some(<<"4", "2", "x">>), Some(<< >>)}

UnknownPaths ==
  {Dot(<<"u", "n", "k", "n", "o", "w", "n", "_", "n", "s">>, <<"f", "o", "o">>),
   Dot(DOWNSTREAM_TOKEN, CONNECTION_ID_TOKEN),
   Dot(<<"R", "E", "Q", "U", "E", "S", "T">>, REQUEST_SIZE_TOKEN),
   << >>}

\* A family of inputs: every stream info, every header map and every path
\* list of at most MaxPaths paths of the family
Family(infos, headers, paths) ==
  {[info |-> i, headers |-> h, specified |-> s] :
     i \in infos, h \in headers, s \in SeqsUpTo(paths, MaxPaths)}

ConnectionFamily ==
  Family({[DefaultStreamInfo EXCEPT !.connectionID = c, !.downstreamSslConnection = s] :
            c \in {nullopt, Some(0), Some(123)},
            s \in {nullptr, Some(DownstreamSsl)}},
         {nullptr},
         {Dot(CONNECTION_TOKEN, CONNECTION_ID_TOKEN),
          Dot(CONNECTION_TOKEN, CONNECTION_TLS_VERSION_TOKEN),
          Dot(CONNECTION_TOKEN, CONNECTION_MTLS_TOKEN),
          Dot(CONNECTION_TOKEN, CONNECTION_REQUESTED_SERVER_NAME_TOKEN),
          Dot(<<"u", "n", "k", "n", "o", "w", "n", "_", "n", "s">>, <<"f", "o", "o">>)})

CertificateFamily ==
  Family({[DefaultStreamInfo EXCEPT !.downstreamSslConnection = s,
                                    !.connectionTerminationDetails = t] :
            s \in {nullptr, Some(DownstreamSsl), Some(NoSans(DownstreamSsl))},
            t \in {nullopt, Some(<<"t", "d">>)}},
         {nullptr},
         {Dot(CONNECTION_TOKEN, CONNECTION_SUBJECT_LOCAL_CERTIFICATE_TOKEN),
          Dot(CONNECTION_TOKEN, CONNECTION_SUBJECT_PEER_CERTIFICATE_TOKEN),
          Dot(CONNECTION_TOKEN, CONNECTION_TERMINATION_DETAILS_TOKEN),
          Dot(CONNECTION_TOKEN, CONNECTION_TLS_VERSION_TOKEN)})

SanFamily ==
  Family({[DefaultStreamInfo EXCEPT !.downstreamSslConnection = s] :
            s \in {nullptr, Some(DownstreamSsl), Some(NoSans(DownstreamSsl))}},
         {nullptr},
         {Dot(CONNECTION_TOKEN, CONNECTION_DNS_SAN_LOCAL_CERTIFICATE_TOKEN),
          Dot(CONNECTION_TOKEN, CONNECTION_DNS_SAN_PEER_CERTIFICATE_TOKEN),
          Dot(CONNECTION_TOKEN, CONNECTION_URI_SAN_LOCAL_CERTIFICATE_TOKEN),
          Dot(CONNECTION_TOKEN, CONNECTION_URI_SAN_PEER_CERTIFICATE_TOKEN)})

UpstreamSanFamily ==
  Family({[DefaultStreamInfo EXCEPT !.upstreamSslConnection = s, !.upstreamHost = h] :
            s \in {nullptr, Some(UpstreamSsl), Some(NoSans(UpstreamSsl))},
            h \in {nullptr, Some([address |-> Some(IpAddress)])}},
         {nullptr},
         {Dot(UPSTREAM_TOKEN, UPSTREAM_DNS_SAN_LOCAL_CERTIFICATE_TOKEN),
          Dot(UPSTREAM_TOKEN, UPSTREAM_DNS_SAN_PEER_CERTIFICATE_TOKEN),
          Dot(UPSTREAM_TOKEN, UPSTREAM_URI_SAN_LOCAL_CERTIFICATE_TOKEN),
          Dot(UPSTREAM_TOKEN, UPSTREAM_URI_SAN_PEER_CERTIFICATE_TOKEN)})

SizeFamily ==
  Family({[DefaultStreamInfo EXCEPT !.bytesReceived = b] : b \in {0, 17}},
         {nullptr} \cup {Some(Headers(c)) : c \in ContentLengths},
         {Dot(REQUEST_TOKEN, REQUEST_SIZE_TOKEN),
          Dot(REQUEST_TOKEN, REQUEST_METHOD_TOKEN),
          Dot(CONNECTION_TOKEN, CONNECTION_ID_TOKEN)})

ProtocolFamily ==
  Family({[DefaultStreamInfo EXCEPT !.protocol = p, !.requestComplete = d] :
            p \in {nullopt, Some(0), Some(1), Some(2), Some(3)},
            d \in {nullopt, Some(5)}},
         {nullptr, Some(Headers(nullptr))},
         {Dot(REQUEST_TOKEN, REQUEST_PROTOCOL_TOKEN),
          Dot(REQUEST_TOKEN, REQUEST_DURATION_TOKEN),
          Dot(REQUEST_TOKEN, REQUEST_TIME_TOKEN),
          Dot(REQUEST_TOKEN, REQUEST_HEADERS_TOKEN)})

\* Paths with a NUL character in them
NulPaths ==
  {REQUEST_TOKEN \o <<NUL>>,
   CONNECTION_TOKEN \o <<NUL>> \o CONNECTION_ID_TOKEN}

UnknownFamily ==
  Family({[DefaultStreamInfo EXCEPT !.connectionID = Some(123)]},
         {nullptr, Some(Headers(nullptr))},
         UnknownPaths \cup NulPaths
           \cup {Dot(CONNECTION_TOKEN, CONNECTION_ID_TOKEN),
                 Dot(REQUEST_TOKEN, REQUEST_METHOD_TOKEN)})

\* Dynamic metadata with one filter bucket
OneFilterMetadata ==
  Put(EmptyMap, <<"f">>, Put(EmptyMap, <<"k">>, ExprValueUtil_stringValue(<<"v">>)))

MetadataFamily ==
  Family({[DefaultStreamInfo EXCEPT !.dynamicMetadata = m, !.connectionID = Some(123)] :
            m \in {EmptyMap, OneFilterMetadata}},
         {nullptr},
         {METADATA_TOKEN,
          Dot(METADATA_TOKEN, <<"f">>),
          FILTER_STATE_TOKEN,
          Dot(FILTER_STATE_TOKEN, <<"f">>),
          Dot(CONNECTION_TOKEN, CONNECTION_ID_TOKEN)})

ResponseFamily ==
  Family({[DefaultStreamInfo EXCEPT !.responseCode = c, !.responseCodeDetails = d,
                                    !.bytesSent = 5, !.bytesReceived = 17] :
            c \in {nullopt, Some(200)}, d \in {nullopt, Some(<<"d">>)}},
         {nullptr},
         {Dot(RESPONSE_TOKEN, RESPONSE_CODE_TOKEN),
          Dot(RESPONSE_TOKEN, RESPONSE_CODE_DETAILS_TOKEN),
          Dot(RESPONSE_TOKEN, RESPONSE_FLAGS_TOKEN),
          Dot(RESPONSE_TOKEN, RESPONSE_GRPC_STATUS_TOKEN),
          Dot(RESPONSE_TOKEN, RESPONSE_SIZE_TOKEN),
          Dot(RESPONSE_TOKEN, RESPONSE_TOTAL_SIZE_TOKEN)})

\* An upstream host without address, with an IP address, with a pipe address
UpstreamHosts ==
  {nullptr, Some([address |-> nullptr]), Some([address |-> Some(IpAddress)]),
   Some([address |-> Some(PipeAddress)])}

SourceFamily ==
  Family({[DefaultStreamInfo EXCEPT !.upstreamHost = h] : h \in UpstreamHosts},
         {nullptr},
         {Dot(SOURCE_TOKEN, SOURCE_ADDRESS_TOKEN),
          Dot(SOURCE_TOKEN, SOURCE_PORT_TOKEN),
          Dot(UPSTREAM_TOKEN, UPSTREAM_ADDRESS_TOKEN),
          Dot(UPSTREAM_TOKEN, UPSTREAM_PORT_TOKEN)})

DestinationFamily ==
  Family({[DefaultStreamInfo EXCEPT !.downstreamLocalAddress = a] :
            a \in {nullptr, Some(IpAddress), Some(PipeAddress)}},
         {nullptr},
         {Dot(DESTINATION_TOKEN, DESTINATION_ADDRESS_TOKEN),
          Dot(DESTINATION_TOKEN, DESTINATION_PORT_TOKEN),
          Dot(DESTINATION_TOKEN, <<"f", "o", "o">>)})

UpstreamCertificateFamily ==
  Family({[DefaultStreamInfo EXCEPT !.upstreamSslConnection = s,
                                    !.upstreamHost = Some([address |-> Some(IpAddress)])] :
            s \in {nullptr, Some(UpstreamSsl)}},
         {nullptr},
         {Dot(UPSTREAM_TOKEN, UPSTREAM_TLS_VERSION_TOKEN),
          Dot(UPSTREAM_TOKEN, UPSTREAM_SUBJECT_LOCAL_CERTIFICATE_TOKEN),
          Dot(UPSTREAM_TOKEN, UPSTREAM_SUBJECT_PEER_CERTIFICATE_TOKEN)})

TotalSizeFamily ==
  Family({[DefaultStreamInfo EXCEPT !.bytesReceived = b] : b \in {0, 17}},
         {nullptr, Some(Headers(nullptr))},
         {Dot(REQUEST_TOKEN, REQUEST_TOTAL_SIZE_TOKEN),
          Dot(REQUEST_TOKEN, REQUEST_PATH_TOKEN)})

\* Request headers with the given :path header value
HeadersWithPath(p) == [Headers(nullptr) EXCEPT !.Path = Some(p)]

\* Path header values without and with a query string and a NUL
PathValues ==
  {<<"/", "a">>, <<"/", "a", "?", "q">>, <<"/", "a", NUL, "b">>,
   <<"/", "a", "?", "q", NUL, "b">>, <<"/", "a", NUL, "b", "?", "q">>, << >>}

UrlPathFamily ==
  Family({DefaultStreamInfo},
         {nullptr, Some([Headers(nullptr) EXCEPT !.Path = nullptr])}
           \cup {Some(HeadersWithPath(p)) : p \in PathValues},
         {Dot(REQUEST_TOKEN, REQUEST_URL_PATH_TOKEN),
          Dot(REQUEST_TOKEN, REQUEST_PATH_TOKEN)})

\* The fields that are recognized and resolve to nothing
UnimplementedFamily ==
  Family({[DefaultStreamInfo EXCEPT !.downstreamSslConnection = s,
                                    !.responseCode = Some(200)] :
            s \in {nullptr, Some(DownstreamSsl)}},
         {nullptr, Some(Headers(nullptr))},
         {Dot(REQUEST_TOKEN, REQUEST_HEADERS_TOKEN),
          Dot(RESPONSE_TOKEN, RESPONSE_GRPC_STATUS_TOKEN),
          Dot(RESPONSE_TOKEN, RESPONSE_HEADERS_TOKEN),
          Dot(RESPONSE_TOKEN, RESPONSE_TRAILERS_TOKEN),
          Dot(CONNECTION_TOKEN, CONNECTION_MTLS_TOKEN)})

\* The upstream fields of a stream that has no upstream host
NoUpstreamHostFamily ==
  Family({[DefaultStreamInfo EXCEPT !.upstreamSslConnection = s, !.upstreamHost = nullptr] :
            s \in {nullptr, Some(UpstreamSsl)}},
         {nullptr},
         {Dot(UPSTREAM_TOKEN, UPSTREAM_ADDRESS_TOKEN),
          Dot(UPSTREAM_TOKEN, UPSTREAM_PORT_TOKEN),
          Dot(UPSTREAM_TOKEN, UPSTREAM_TLS_VERSION_TOKEN),
          Dot(UPSTREAM_TOKEN, UPSTREAM_SUBJECT_LOCAL_CERTIFICATE_TOKEN),
          Dot(UPSTREAM_TOKEN, UPSTREAM_SUBJECT_PEER_CERTIFICATE_TOKEN)})

\* Longest path given to the tokenizer alone
MaxLen == 3

\* Every string of at most MaxLen characters out of a letter, '.' and NUL
TokenizerPaths == SeqsUpTo({"a", ".", NUL}, MaxLen)

\* One path each, whatever its shape, on the default stream
TokenizerFamily ==
  {[info |-> DefaultStreamInfo, headers |-> nullptr, specified |-> <<p>>] :
     p \in TokenizerPaths}

Inputs ==
  ConnectionFamily \cup CertificateFamily \cup SanFamily \cup UpstreamSanFamily
    \cup SizeFamily \cup ProtocolFamily \cup UnknownFamily \cup MetadataFamily
    \cup TokenizerFamily \cup ResponseFamily \cup SourceFamily \cup DestinationFamily
    \cup UpstreamCertificateFamily \cup TotalSizeFamily \cup UrlPathFamily
    \cup UnimplementedFamily \cup NoUpstreamHostFamily

\* Most builds one caller runs, one after the other, over one container
MaxCalls == 3

\* What a caller that keeps its container asks for: the bare metadata path,
\* the connection id or nothing, the dynamic metadata changing meanwhile
CallInputs ==
  {[info |-> [DefaultStreamInfo EXCEPT !.dynamicMetadata = m, !.connectionID = Some(123)],
    headers |-> nullptr,
    specified |-> s] :
     m \in {EmptyMap, OneFilterMetadata},
     s \in {<< >>, <<METADATA_TOKEN>>, <<Dot(CONNECTION_TOKEN, CONNECTION_ID_TOKEN)>>}}

\* ----------------------------------------------------------------------
\* State
\* ----------------------------------------------------------------------
VARIABLES
  info_,              \* the StreamInfo both objects were constructed over
  request_headers_,   \* the request header map given to both, or nullptr
  specified_,         \* the path list
  attributes_,        \* AttrUtils: the container build() fills and returns
  root_tok,           \* AttrUtils: the namespace build() last tokenized
  sub_tok,            \* AttrUtils: the field build() last tokenized
  attr_fields,        \* AttrUtils: the local attr_fields of the last call
  next_path,          \* AttrUtils: index of the next path of build()'s loop
  status,             \* AttrUtils: "running", "done", "threw" or "crashed"
  illegal,            \* AttrUtils: an absent optional, a null pointer or an
                      \* empty list has been read
  map_value,          \* Attributes: the map buildAttributesValue builds
  next_id,            \* Attributes: index of the next attribute id
  value_status,       \* Attributes: "running", "done", "threw" or "crashed"
  value_illegal,      \* Attributes: as illegal
  pending,            \* the builds the caller will still run over the same
                      \* container, in order
  history             \* the builds that have returned: what each was given
                      \* and what it returned

vars ==
  <<info_, request_headers_, specified_, attributes_, root_tok, sub_tok,
    attr_fields, next_path, status, illegal, map_value, next_id, value_status,
    value_illegal, pending, history>>

\* A container that already holds the request bucket
NewAttributes_with_bucket == Put(EmptyMap, REQUEST_TOKEN, EmptyMap)

\* The container a caller hands to the AttrUtils constructor (part_000 line
\* 26), and the map a buildAttributesValue call starts from
NewAttributes == EmptyMap

Init ==
  /\ \E in \in Inputs :
       /\ info_ = in.info
       /\ request_headers_ = in.headers
       /\ specified_ = in.specified
  /\ attributes_ = NewAttributes
  /\ root_tok = << >>
  /\ sub_tok = << >>
  /\ attr_fields = EmptyMap
  /\ next_path = 1
  /\ status = "running"
  /\ illegal = FALSE
  /\ map_value = NewAttributes
  /\ next_id = 1
  /\ value_status = "running"
  /\ value_illegal = FALSE
  /\ pending = << >>
  /\ history = << >>

\* AttrUtils::build (lines 185-191), one iteration of the loop
Build ==
  /\ status = "running"
  /\ next_path <= Len(specified_)
  /\ LET tok == tokenizePath(specified_[next_path])
     IN  \E r \in findValue(attributes_, tok[1], tok[2], info_, request_headers_) :
           /\ root_tok' = tok[1]
           /\ sub_tok' = tok[2]
           /\ attributes_' = r.attributes
           /\ attr_fields' = r.attr_fields
           /\ illegal' = (illegal \/ r.illegal)
           /\ status' = IF r.status = "ok" THEN "running" ELSE r.status
           /\ next_path' = next_path + 1
  /\ UNCHANGED <<info_, request_headers_, specified_, pending, history,
                 map_value, next_id, value_status, value_illegal>>

\* AttrUtils::build, the return after the last path
BuildReturn ==
  /\ status = "running"
  /\ next_path > Len(specified_)
  /\ status' = "done"
  /\ UNCHANGED <<info_, request_headers_, specified_, attributes_, root_tok, sub_tok,
                 attr_fields, next_path, illegal, map_value, next_id, value_status,
                 value_illegal, pending, history>>

\* Attributes::buildAttributesValue, one attribute id
BuildAttributesValue ==
  /\ value_status = "running"
  /\ next_id <= Len(specified_)
  /\ LET attr_id == from_path(specified_[next_id])
     IN  IF ~has_value(attr_id)
         THEN UNCHANGED <<map_value, value_status, value_illegal>>
         ELSE \E g \in getAttribute(value(attr_id), info_, request_headers_) :
                /\ map_value' = buildAttributeValue(map_value, value(attr_id), g.ret)
                /\ value_illegal' = (value_illegal \/ g.illegal)
                /\ value_status' = IF g.status = "ok" THEN "running" ELSE g.status
  /\ next_id' = next_id + 1
  /\ UNCHANGED <<info_, request_headers_, specified_, attributes_, root_tok, sub_tok,
                 attr_fields, next_path, status, illegal, pending, history>>

\* Attributes::buildAttributesValue, the return after the last id
BuildAttributesValueReturn ==
  /\ value_status = "running"
  /\ next_id > Len(specified_)
  /\ value_status' = "done"
  /\ UNCHANGED <<info_, request_headers_, specified_, attributes_, root_tok, sub_tok,
                 attr_fields, next_path, status, illegal, map_value, next_id,
                 value_illegal, pending, history>>

Next ==
  \/ Build
  \/ BuildReturn
  \/ BuildAttributesValue
  \/ BuildAttributesValueReturn

Spec == Init /\ [][Next]_vars

\* What the build that has just returned was given and what it returned
Returned ==
  [info |-> info_, headers |-> request_headers_, specified |-> specified_,
   attributes |-> attributes_, map_value |-> map_value]

\* A caller that runs up to MaxCalls builds over one container
InitCalls ==
  /\ \E in \in CallInputs :
       /\ info_ = in.info
       /\ request_headers_ = in.headers
       /\ specified_ = in.specified
  /\ pending \in SeqsUpTo(CallInputs, MaxCalls - 1)
  /\ history = << >>
  /\ attributes_ = NewAttributes
  /\ root_tok = << >>
  /\ sub_tok = << >>
  /\ attr_fields = EmptyMap
  /\ next_path = 1
  /\ status = "running"
  /\ illegal = FALSE
  /\ map_value = NewAttributes
  /\ next_id = 1
  /\ value_status = "running"
  /\ value_illegal = FALSE

\* The caller's next build: an AttrUtils constructed over the container the
\* caller already holds (part_000 line 26), nothing being cleared, then
\* build(); buildAttributesValue starts from a map of its own
Call ==
  /\ status = "done"
  /\ value_status = "done"
  /\ pending # << >>
  /\ history' = Append(history, Returned)
  /\ info_' = Head(pending).info
  /\ request_headers_' = Head(pending).headers
  /\ specified_' = Head(pending).specified
  /\ pending' = Tail(pending)
  /\ next_path' = 1
  /\ status' = "running"
  /\ map_value' = NewAttributes
  /\ next_id' = 1
  /\ value_status' = "running"
  /\ UNCHANGED <<attributes_, root_tok, sub_tok, attr_fields, illegal, value_illegal>>

NextCalls ==
  \/ Build
  \/ BuildReturn
  \/ BuildAttributesValue
  \/ BuildAttributesValueReturn
  \/ Call

SpecCalls == InitCalls /\ [][NextCalls]_vars

TypeOK ==
  /\ status \in {"running", "done", "threw", "crashed"}
  /\ value_status \in {"running", "done", "threw", "crashed"}
  /\ next_path \in 1..(Len(specified_) + 1)
  /\ next_id \in 1..(Len(specified_) + 1)

\* ----------------------------------------------------------------------
\* Properties
\* ----------------------------------------------------------------------
\* The eight namespaces
KnownNamespaces ==
  {REQUEST_TOKEN, RESPONSE_TOKEN, CONNECTION_TOKEN, UPSTREAM_TOKEN, SOURCE_TOKEN,
   DESTINATION_TOKEN, METADATA_TOKEN, FILTER_STATE_TOKEN}

\* The part of a path before its first '.', the whole path when it has none
BeforeFirstDot(path) ==
  IF \E i \in 1..Len(path) : path[i] = "."
  THEN SubSeq(path, 1, (CHOOSE i \in 1..Len(path) :
                          path[i] = "." /\ \A j \in 1..(i - 1) : path[j] # ".") - 1)
  ELSE path

\* The part of a path after its first '.', empty when it has none
AfterFirstDot(path) ==
  SubSeq(path, Len(BeforeFirstDot(path)) + 2, Len(path))

\* The part of a path before its first '.' or NUL
BeforeFirstDotOrNul(path) ==
  IF \E i \in 1..Len(path) : path[i] \in {".", NUL}
  THEN SubSeq(path, 1, (CHOOSE i \in 1..Len(path) :
                          /\ path[i] \in {".", NUL}
                          /\ \A j \in 1..(i - 1) : path[j] \notin {".", NUL}) - 1)
  ELSE path

\* The bucket of a namespace in an output, empty when the output has none
Bucket(output, ns) == IF ns \in DOMAIN output THEN output[ns] ELSE EmptyMap

Finished(s) == s \in {"done", "threw", "crashed"}

ConnectionIdPath == Dot(CONNECTION_TOKEN, CONNECTION_ID_TOKEN)

\* {connection: {id: UInt64(n)}}
ConnectionIdOutput(n) ==
  Put(EmptyMap, CONNECTION_TOKEN,
      Put(EmptyMap, CONNECTION_ID_TOKEN, [kind |-> "UInt64", val |-> n]))

\* C1: with connection id n present, the path list ["connection.id"] yields
\* exactly {connection: {id: UInt64(n)}}, from AttrUtils::build and from
\* Attributes::buildAttributesValue alike
C1_ConnectionIdOutput ==
  (specified_ = <<ConnectionIdPath>> /\ has_value(info_.connectionID)) =>
    /\ Finished(status) =>
         /\ status = "done"
         /\ attributes_ = ConnectionIdOutput(value(info_.connectionID))
    /\ Finished(value_status) =>
         /\ value_status = "done"
         /\ map_value = ConnectionIdOutput(value(info_.connectionID))

\* A path resolves to a value: its namespace and field are known and the
\* accessor hands back a value without failing
ResolvesToValue(path) ==
  /\ has_value(from_path(path))
  /\ \A g \in getAttribute(value(from_path(path)), info_, request_headers_) :
       g.status = "ok" /\ ~g.illegal /\ has_value(g.ret)

\* Two distinct paths of one namespace that both resolve to a value
TwoPathsOfOneNamespace ==
  /\ Len(specified_) = 2
  /\ specified_[1] # specified_[2]
  /\ BeforeFirstDot(specified_[1]) = BeforeFirstDot(specified_[2])
  /\ ResolvesToValue(specified_[1])
  /\ ResolvesToValue(specified_[2])

\* The output is one bucket, of the namespace of the two paths, with both
\* fields in it
OneBucketWithBothFields(output) ==
  /\ DOMAIN output = {BeforeFirstDot(specified_[1])}
  /\ {AfterFirstDot(specified_[1]), AfterFirstDot(specified_[2])}
       \subseteq DOMAIN output[BeforeFirstDot(specified_[1])]

\* C2: two distinct paths of one namespace that both resolve to a value give
\* one bucket holding both fields, in either order
C2_OneBucketBothFields ==
  TwoPathsOfOneNamespace =>
    /\ status = "done" => OneBucketWithBothFields(attributes_)
    /\ value_status = "done" => OneBucketWithBothFields(map_value)

TlsDerivedFields ==
  {CONNECTION_TLS_VERSION_TOKEN,
   CONNECTION_SUBJECT_LOCAL_CERTIFICATE_TOKEN,
   CONNECTION_SUBJECT_PEER_CERTIFICATE_TOKEN,
   CONNECTION_DNS_SAN_LOCAL_CERTIFICATE_TOKEN,
   CONNECTION_DNS_SAN_PEER_CERTIFICATE_TOKEN,
   CONNECTION_URI_SAN_LOCAL_CERTIFICATE_TOKEN,
   CONNECTION_URI_SAN_PEER_CERTIFICATE_TOKEN,
   CONNECTION_TERMINATION_DETAILS_TOKEN}

TlsDerivedPaths == {Dot(CONNECTION_TOKEN, f) : f \in TlsDerivedFields}

\* C5: without a downstream TLS session, resolving the TLS-derived connection
\* fields fails nowhere and leaves no entry for any of them
C5_NoTlsSessionNoEntry ==
  (/\ info_.downstreamSslConnection = nullptr
   /\ \A i \in 1..Len(specified_) : specified_[i] \in TlsDerivedPaths) =>
    /\ status \in {"running", "done"} /\ ~illegal
    /\ value_status \in {"running", "done"} /\ ~value_illegal
    /\ \A f \in TlsDerivedFields :
         /\ f \notin DOMAIN Bucket(attributes_, CONNECTION_TOKEN)
         /\ f \notin DOMAIN attr_fields
         /\ f \notin DOMAIN Bucket(map_value, CONNECTION_TOKEN)

C5_Witness ==
  /\ info_.downstreamSslConnection = nullptr
  /\ Len(specified_) = 2
  /\ specified_[1] = Dot(CONNECTION_TOKEN, CONNECTION_TLS_VERSION_TOKEN)
  /\ specified_[2] = Dot(CONNECTION_TOKEN, CONNECTION_TERMINATION_DETAILS_TOKEN)
  /\ status = "done"
  /\ value_status = "done"

\* C6: whatever optional data is absent, resolution completes and never reads
\* through an absent optional, a null pointer or an empty list
C6_NoIllegalRead ==
  /\ status \in {"running", "done"} /\ ~illegal
  /\ value_status \in {"running", "done"} /\ ~value_illegal

RECURSIVE InClosedSet(_)
\* The value, and every value nested in it, has a kind of the closed set
InClosedSet(v) ==
  /\ v.kind \in Kinds
  /\ v.kind = "Struct" => \A k \in DOMAIN v.val : InClosedSet(v.val[k])

RequestSizePath == Dot(REQUEST_TOKEN, REQUEST_SIZE_TOKEN)

\* {request: {size: UInt64(n)}}
RequestSizeOutput(n) ==
  Put(EmptyMap, REQUEST_TOKEN,
      Put(EmptyMap, REQUEST_SIZE_TOKEN, [kind |-> "UInt64", val |-> n]))

\* The request has a content-length header
HasContentLength ==
  request_headers_ # nullptr /\ value(request_headers_).ContentLength # nullptr

ContentLengthText == value(value(request_headers_).ContentLength)

\* C8: request.size is UInt64(n) when the content-length header parses to n,
\* and UInt64(bytes received) when there is no content-length header
C8_RequestSize ==
  (/\ specified_ = <<RequestSizePath>>
   /\ (HasContentLength => has_value(SimpleAtoi(ContentLengthText)))) =>
    LET expected ==
          RequestSizeOutput(IF HasContentLength
                            THEN value(SimpleAtoi(ContentLengthText))
                            ELSE info_.bytesReceived)
    IN  /\ status = "done" => attributes_ = expected
        /\ value_status = "done" => map_value = expected

\* C9: with a content-length header that does not parse, request.size is
\* still an entry, holding the bytes received
C9_RequestSizeFallback ==
  (/\ specified_ = <<RequestSizePath>>
   /\ HasContentLength
   /\ ~has_value(SimpleAtoi(ContentLengthText))) =>
    /\ status = "done" => attributes_ = RequestSizeOutput(info_.bytesReceived)
    /\ value_status = "done" => map_value = RequestSizeOutput(info_.bytesReceived)

RequestProtocolPath == Dot(REQUEST_TOKEN, REQUEST_PROTOCOL_TOKEN)

\* The four protocol names, by enum value
ProtocolName(p) ==
  CASE p = 0 -> <<"H", "t", "t", "p", " ", "1", ".", "0">>
    [] p = 1 -> <<"H", "t", "t", "p", " ", "1", ".", "1">>
    [] p = 2 -> <<"H", "t", "t", "p", " ", "2">>
    [] p = 3 -> <<"H", "t", "t", "p", " ", "3">>

\* The output a build of ["request.protocol"] is to return
RequestProtocolOutput ==
  IF has_value(info_.protocol)
  THEN Put(EmptyMap, REQUEST_TOKEN,
           Put(EmptyMap, REQUEST_PROTOCOL_TOKEN,
               [kind |-> "String", val |-> ProtocolName(value(info_.protocol))]))
  ELSE EmptyMap

\* C10: request.protocol is the String of the protocol table when a protocol
\* is reported; when none is, the resolution completes and the field is
\* omitted
C10_RequestProtocol ==
  specified_ = <<RequestProtocolPath>> =>
    /\ Finished(status) =>
         /\ status = "done"
         /\ REQUEST_PROTOCOL_TOKEN \in DOMAIN Bucket(attributes_, REQUEST_TOKEN)
              <=> has_value(info_.protocol)
         /\ has_value(info_.protocol) => attributes_ = RequestProtocolOutput
    /\ Finished(value_status) =>
         /\ value_status = "done"
         /\ map_value = RequestProtocolOutput

\* The path has the character
HasChar(path, c) == \E i \in 1..Len(path) : path[i] = c

\* C11 (as stated): whatever the path, NUL bytes included, the namespace
\* tokenizePath returns is the part before the first '.', the whole path when
\* it has no '.'
C11_NamespaceBeforeFirstDot ==
  [][next_path' = next_path + 1 =>
       root_tok' = BeforeFirstDot(specified_[next_path])]_vars

\* C11 (amended): whatever the path, tokenizePath returns a pair and the build
\* goes on to the lookup; the namespace is the part before the first '.' or
\* NUL, whichever comes first, the whole path when it has neither
C11_NamespaceBeforeFirstDotOrNul ==
  [][next_path' = next_path + 1 =>
       root_tok' = BeforeFirstDotOrNul(specified_[next_path])]_vars

\* A path with a NUL before its '.' has been tokenized
C11_Witness ==
  /\ next_path = 2
  /\ specified_[1] = <<"a", NUL, ".">>
  /\ root_tok = <<"a">>

\* C12: an output holds a bucket only for a namespace of which a path resolved
\* to a value, so no bucket of an output is ever empty
C12_NoEmptyBucket ==
  /\ status = "done" => \A ns \in DOMAIN attributes_ : attributes_[ns] # EmptyMap
  /\ value_status = "done" => \A ns \in DOMAIN map_value : map_value[ns] # EmptyMap

\* The path has been supplied before position k of the list
SuppliedBefore(k) == \E i \in 1..(k - 1) : specified_[i] = specified_[k]

\* The output has an entry for the path
HasEntry(output, path) ==
  AfterFirstDot(path) \in DOMAIN Bucket(output, BeforeFirstDot(path))

\* C13: a path supplied again leaves the output as it was, with its one entry
\* when the path resolves to a value, so the output of the whole list is the
\* output of the list without the repetition
C13_DuplicatePath ==
  [][/\ (next_path' = next_path + 1 /\ SuppliedBefore(next_path))
          => /\ attributes_' = attributes_
             /\ status' = "running"
             /\ ResolvesToValue(specified_[next_path])
                  => HasEntry(attributes_', specified_[next_path])
     /\ (next_id' = next_id + 1 /\ SuppliedBefore(next_id))
          => /\ map_value' = map_value
             /\ value_status' = "running"
             /\ ResolvesToValue(specified_[next_id])
                  => HasEntry(map_value', specified_[next_id])]_vars

\* The request fields read from the request headers
RequestHeaderFields ==
  {REQUEST_PATH_TOKEN, REQUEST_URL_PATH_TOKEN, REQUEST_HOST_TOKEN, REQUEST_SCHEME_TOKEN,
   REQUEST_METHOD_TOKEN, REQUEST_REFERER_TOKEN, REQUEST_USERAGENT_TOKEN, REQUEST_ID_TOKEN}

\* The upstream fields read from the upstream TLS session
UpstreamTlsFields ==
  {UPSTREAM_TLS_VERSION_TOKEN,
   UPSTREAM_SUBJECT_LOCAL_CERTIFICATE_TOKEN,
   UPSTREAM_SUBJECT_PEER_CERTIFICATE_TOKEN,
   UPSTREAM_DNS_SAN_LOCAL_CERTIFICATE_TOKEN,
   UPSTREAM_DNS_SAN_PEER_CERTIFICATE_TOKEN,
   UPSTREAM_URI_SAN_LOCAL_CERTIFICATE_TOKEN,
   UPSTREAM_URI_SAN_PEER_CERTIFICATE_TOKEN}

\* The path names a recognized field whose data the context does not have:
\* request headers absent, request not complete, no response code, no upstream
\* host, no address, no TLS session
Unavailable(path) ==
  LET ns == BeforeFirstDot(path)
      f == AfterFirstDot(path)
      NoUpstreamAddress ==
        \/ info_.upstreamHost = nullptr
        \/ value(info_.upstreamHost).address = nullptr
  IN  \/ ns = REQUEST_TOKEN /\ f \in RequestHeaderFields /\ request_headers_ = nullptr
      \/ ns = REQUEST_TOKEN /\ f = REQUEST_DURATION_TOKEN
           /\ ~has_value(info_.requestComplete)
      \/ ns = RESPONSE_TOKEN /\ f = RESPONSE_CODE_TOKEN /\ ~has_value(info_.responseCode)
      \/ ns = SOURCE_TOKEN /\ f \in {SOURCE_ADDRESS_TOKEN, SOURCE_PORT_TOKEN}
           /\ NoUpstreamAddress
      \/ ns = UPSTREAM_TOKEN /\ f \in {UPSTREAM_ADDRESS_TOKEN, UPSTREAM_PORT_TOKEN}
           /\ NoUpstreamAddress
      \/ ns = DESTINATION_TOKEN /\ f \in {DESTINATION_ADDRESS_TOKEN, DESTINATION_PORT_TOKEN}
           /\ info_.downstreamLocalAddress = nullptr
      \/ ns = CONNECTION_TOKEN /\ f \in TlsDerivedFields
           /\ info_.downstreamSslConnection = nullptr
      \/ ns = UPSTREAM_TOKEN /\ f \in UpstreamTlsFields
           /\ info_.upstreamSslConnection = nullptr

\* C14: a recognized field whose data is structurally unavailable has no entry
\* in the output, neither a value nor Null
C14_UnavailableOmitted ==
  /\ \A i \in 1..(next_path - 1) :
       Unavailable(specified_[i]) => ~HasEntry(attributes_, specified_[i])
  /\ \A i \in 1..(next_id - 1) :
       Unavailable(specified_[i]) => ~HasEntry(map_value, specified_[i])

\* A filter_state path, with or without a field, or a metadata path with a
\* field
FieldlessNamespacePath(path) ==
  \/ BeforeFirstDot(path) = FILTER_STATE_TOKEN
  \/ BeforeFirstDot(path) = METADATA_TOKEN /\ AfterFirstDot(path) # << >>

\* C15: resolving a filter_state path, or a metadata path with a non-empty
\* field, adds no bucket and no entry and does not fail
C15_ResolvesToNothing ==
  [][/\ (next_path' = next_path + 1 /\ FieldlessNamespacePath(specified_[next_path]))
          => (attributes_' = attributes_ /\ status' = "running" /\ illegal' = illegal)
     /\ (next_id' = next_id + 1 /\ FieldlessNamespacePath(specified_[next_id]))
          => (/\ map_value' = map_value
              /\ value_status' = "running"
              /\ value_illegal' = value_illegal)]_vars

\* A filter_state path and a metadata path with a field have been resolved
\* and both builds have returned
C15_Witness ==
  /\ specified_ = <<FILTER_STATE_TOKEN, Dot(METADATA_TOKEN, <<"f">>)>>
  /\ info_.dynamicMetadata = OneFilterMetadata
  /\ status = "done"
  /\ value_status = "done"
  /\ attributes_ = EmptyMap
  /\ map_value = EmptyMap

\* The output of the bare metadata path: one bucket, one key, a Struct with
\* the Struct form of every filter bucket of the dynamic metadata
MetadataOutput ==
  Put(EmptyMap, METADATA_TOKEN,
      Put(EmptyMap, <<"m", "e", "t", "a", "d", "a", "t", "a">>,
          [kind |-> "Struct",
           val |-> [k \in DOMAIN info_.dynamicMetadata |->
                      [kind |-> "Struct", val |-> info_.dynamicMetadata[k]]]]))

\* C16: the bare path "metadata" yields the metadata bucket with the one key
\* "metadata", a Struct mirroring the dynamic-metadata filter buckets
C16_BareMetadata ==
  specified_ = <<METADATA_TOKEN>> =>
    /\ status = "done" => attributes_ = MetadataOutput
    /\ value_status = "done" => map_value = MetadataOutput

\* The builds that have returned so far, the last one included
AllReturned ==
  {history[i] : i \in DOMAIN history}
    \cup (IF status = "done" /\ value_status = "done" THEN {Returned} ELSE {})

\* C17: two builds given the same paths and the same context return equal
\* outputs, whatever was built before them over the same container
C17_OutputFunctionOfInputs ==
  \A a, b \in AllReturned :
    (a.info = b.info /\ a.headers = b.headers /\ a.specified = b.specified)
      => (a.attributes = b.attributes /\ a.map_value = b.map_value)

\* The part of a path before its first NUL, the whole path when it has none
BeforeFirstNul(path) ==
  IF HasChar(path, NUL)
  THEN SubSeq(path, 1, (CHOOSE i \in 1..Len(path) :
                          path[i] = NUL /\ \A j \in 1..(i - 1) : path[j] # NUL) - 1)
  ELSE path

\* C18: the field tokenizePath returns is everything after the first '.' of
\* the path cut at its first NUL, wherever the NUL lies: not split again at
\* later '.', empty when there is no '.' or nothing follows it
C18_FieldAfterFirstDot ==
  [][next_path' = next_path + 1 =>
       sub_tok' = AfterFirstDot(BeforeFirstNul(specified_[next_path]))]_vars

\* Every entry of the two outputs other than the one of the path is the same
\* in both: same bucket, same key, same value
SameButFor(before, after, path) ==
  \A ns \in DOMAIN before \cup DOMAIN after :
    \A k \in DOMAIN Bucket(before, ns) \cup DOMAIN Bucket(after, ns) :
      (ns # BeforeFirstDot(path) \/ k # AfterFirstDot(path)) =>
        /\ k \in DOMAIN Bucket(before, ns)
        /\ k \in DOMAIN Bucket(after, ns)
        /\ before[ns][k] = after[ns][k]

\* The keys a resolver has assigned in its bucket attr_fields: those the
\* bucket of the container does not hold with the same value
Assigned(fields, bucket) ==
  {k \in DOMAIN fields : k \notin DOMAIN bucket \/ bucket[k] # fields[k]}

RequestTotalSizePath == Dot(REQUEST_TOKEN, REQUEST_TOTAL_SIZE_TOKEN)

\* {request: {total_size: UInt64(n)}}
RequestTotalSizeOutput(n) ==
  Put(EmptyMap, REQUEST_TOKEN,
      Put(EmptyMap, REQUEST_TOTAL_SIZE_TOKEN, [kind |-> "UInt64", val |-> n]))

\* C20: request.total_size is UInt64(bytes received + byte size of the request
\* headers) with request headers, UInt64(bytes received) without, whatever
\* the number of bytes received; the resolution does not fail
C20_RequestTotalSize ==
  specified_ = <<RequestTotalSizePath>> =>
    LET expected ==
          RequestTotalSizeOutput(IF request_headers_ # nullptr
                                 THEN info_.bytesReceived + value(request_headers_).byteSize
                                 ELSE info_.bytesReceived)
    IN  /\ Finished(status) => (status = "done" /\ attributes_ = expected)
        /\ Finished(value_status) => (value_status = "done" /\ map_value = expected)

RequestUrlPathPath == Dot(REQUEST_TOKEN, REQUEST_URL_PATH_TOKEN)

\* The part of a string before its first '?' or NUL, the whole string when it
\* has neither
BeforeQueryOrNul(s) ==
  IF \E i \in 1..Len(s) : s[i] \in {"?", NUL}
  THEN SubSeq(s, 1, (CHOOSE i \in 1..Len(s) :
                       /\ s[i] \in {"?", NUL}
                       /\ \A j \in 1..(i - 1) : s[j] \notin {"?", NUL}) - 1)
  ELSE s

\* The request has a :path header
HasPathHeader ==
  request_headers_ # nullptr /\ value(request_headers_).Path # nullptr

\* C21: request.url_path is the :path header value cut at its first '?' or
\* NUL, whichever comes first, and the whole value when it has neither
C21_UrlPath ==
  (specified_ = <<RequestUrlPathPath>> /\ HasPathHeader) =>
    LET expected ==
          Put(EmptyMap, REQUEST_TOKEN,
              Put(EmptyMap, REQUEST_URL_PATH_TOKEN,
                  [kind |-> "String",
                   val |-> BeforeQueryOrNul(value(value(request_headers_).Path))]))
    IN  /\ Finished(status) => (status = "done" /\ attributes_ = expected)
        /\ Finished(value_status) => (value_status = "done" /\ map_value = expected)

\* The recognized fields that are unimplemented or short-circuited
UnimplementedPaths ==
  {Dot(REQUEST_TOKEN, REQUEST_HEADERS_TOKEN),
   Dot(RESPONSE_TOKEN, RESPONSE_GRPC_STATUS_TOKEN),
   Dot(RESPONSE_TOKEN, RESPONSE_HEADERS_TOKEN),
   Dot(RESPONSE_TOKEN, RESPONSE_TRAILERS_TOKEN),
   Dot(CONNECTION_TOKEN, CONNECTION_MTLS_TOKEN)}

\* C22: request.headers, response.grpc_status, response.headers,
\* response.trailers and connection.mtls never have an entry in the output,
\* whatever the context
C22_UnimplementedNoEntry ==
  /\ \A i \in 1..(next_path - 1) :
       specified_[i] \in UnimplementedPaths => ~HasEntry(attributes_, specified_[i])
  /\ \A i \in 1..(next_id - 1) :
       specified_[i] \in UnimplementedPaths => ~HasEntry(map_value, specified_[i])

\* The four SAN fields, each with the list of the session it reads
SanLists(ssl) ==
  {<<CONNECTION_DNS_SAN_LOCAL_CERTIFICATE_TOKEN, ssl.dnsSansLocalCertificate>>,
   <<CONNECTION_DNS_SAN_PEER_CERTIFICATE_TOKEN, ssl.dnsSansPeerCertificate>>,
   <<CONNECTION_URI_SAN_LOCAL_CERTIFICATE_TOKEN, ssl.uriSanLocalCertificate>>,
   <<CONNECTION_URI_SAN_PEER_CERTIFICATE_TOKEN, ssl.uriSanPeerCertificate>>}

\* The namespaces that carry SAN fields, each with its TLS session
SanSessions ==
  {<<CONNECTION_TOKEN, info_.downstreamSslConnection>>,
   <<UPSTREAM_TOKEN, info_.upstreamSslConnection>>}

\* The output that holds the one field as a String
OneString(ns, field, s) ==
  Put(EmptyMap, ns, Put(EmptyMap, field, [kind |-> "String", val |-> s]))

\* C23: with the TLS session of the namespace present, a SAN field resolves to
\* one String, the first element of the SAN list of that name of that session
C23_SanFirstElement ==
  \A n \in SanSessions :
    has_value(n[2]) =>
      \A f \in SanLists(value(n[2])) :
        (specified_ = <<Dot(n[1], f[1])>> /\ f[2] # << >>) =>
          /\ Finished(status) =>
               (status = "done" /\ attributes_ = OneString(n[1], f[1], f[2][1]))
          /\ Finished(value_status) =>
               (value_status = "done" /\ map_value = OneString(n[1], f[1], f[2][1]))

\* The upstream fields read from the upstream host or the upstream TLS session
UpstreamGuardedPaths ==
  {Dot(UPSTREAM_TOKEN, f) :
     f \in {UPSTREAM_ADDRESS_TOKEN, UPSTREAM_PORT_TOKEN, UPSTREAM_TLS_VERSION_TOKEN,
            UPSTREAM_SUBJECT_LOCAL_CERTIFICATE_TOKEN,
            UPSTREAM_SUBJECT_PEER_CERTIFICATE_TOKEN,
            UPSTREAM_DNS_SAN_LOCAL_CERTIFICATE_TOKEN,
            UPSTREAM_DNS_SAN_PEER_CERTIFICATE_TOKEN,
            UPSTREAM_URI_SAN_LOCAL_CERTIFICATE_TOKEN,
            UPSTREAM_URI_SAN_PEER_CERTIFICATE_TOKEN}}

\* C24: without an upstream host, the upstream address, port, TLS version and
\* certificate and SAN fields have no entry in the output, whether or not an
\* upstream TLS session is present
C24_GuardedOnUpstreamHost ==
  ~has_value(info_.upstreamHost) =>
    /\ \A i \in 1..(next_path - 1) :
         specified_[i] \in UpstreamGuardedPaths => ~HasEntry(attributes_, specified_[i])
    /\ \A i \in 1..(next_id - 1) :
         specified_[i] \in UpstreamGuardedPaths => ~HasEntry(map_value, specified_[i])

\* The namespaces that carry an address and a port, each with the address it
\* reads: absent when the context has none
AddressNamespaces ==
  LET hostAddress == IF has_value(info_.upstreamHost)
                     THEN value(info_.upstreamHost).address ELSE nullptr
  IN  {<<SOURCE_TOKEN, SOURCE_ADDRESS_TOKEN, SOURCE_PORT_TOKEN, hostAddress>>,
       <<UPSTREAM_TOKEN, UPSTREAM_ADDRESS_TOKEN, UPSTREAM_PORT_TOKEN, hostAddress>>,
       <<DESTINATION_TOKEN, DESTINATION_ADDRESS_TOKEN, DESTINATION_PORT_TOKEN,
         info_.downstreamLocalAddress>>}

\* The output has no entry for the port of the namespace and, once the address
\* path is resolved, holds the address string
PortOmitted(output, resolved, n) ==
  \A i \in 1..resolved :
    /\ specified_[i] = Dot(n[1], n[3]) => ~HasEntry(output, specified_[i])
    /\ specified_[i] = Dot(n[1], n[2]) =>
         /\ HasEntry(output, specified_[i])
         /\ Bucket(output, n[1])[n[2]] = [kind |-> "String", val |-> value(n[4]).asString]

\* C25: against an address without an IP representation the port of source,
\* destination and upstream has no entry, and the address of the same
\* namespace resolves to the address string
C25_PortOmittedWithoutIp ==
  \A n \in AddressNamespaces :
    (has_value(n[4]) /\ ~has_value(value(n[4]).ip)) =>
      /\ PortOmitted(attributes_, next_path - 1, n)
      /\ PortOmitted(map_value, next_id - 1, n)

\* The path at position k is supplied there for the first time, has a field
\* and resolves to a value
FirstSupplied(k) ==
  /\ ~SuppliedBefore(k)
  /\ AfterFirstDot(specified_[k]) # << >>
  /\ ResolvesToValue(specified_[k])

\* No field of a path that is first supplied after position k is in the output
NoneOfLater(output, k) ==
  \A j \in (k + 1)..Len(specified_) :
    (\A i \in 1..k : specified_[i] # specified_[j]) => ~HasEntry(output, specified_[j])

====
